---- MODULE Spec2Model ----
(***************************************************************************)
(* Model of the summarize tool of src/src/index.ts: tool.execute and the   *)
(* pattern-based functions it calls.                                       *)
(*                                                                         *)
(* A JavaScript string is a sequence of characters, each character a       *)
(* one-element TLA+ string; the bullet U+2022 and the backtick U+0060 are  *)
(* the atoms Bullet and Backtick.  The whitespace class \s is restricted   *)
(* to the whitespace the model's inputs use (space, line feed, tab).  An   *)
(* optional argument is a record [given, v]: Absent stands for             *)
(* JavaScript's undefined.                                                 *)
(***************************************************************************)
EXTENDS Integers, Sequences, FiniteSets, TLC

VARIABLES
    pc,         \* position inside the running operation
    args,       \* the arguments of the operation
    fsys,       \* the file the file argument names: exists, readable, content
    content,    \* execute: contentToSummarize
    analysis,   \* execute: the ContentAnalysis
    summary,    \* execute: summary
    formatted,  \* execute: formattedSummary, [content, metadata]
    stages,     \* execute: the stages that ran, each with its input and output
    result      \* the value returned

vars == <<pc, args, fsys, content, analysis, summary, formatted, stages, result>>

(***************************************************************************)
(* Characters and character classes                                        *)
(***************************************************************************)
LF == "\n"
TAB == "\t"
DQ == "\""
BSL == "\\"
Bullet == "u2022"
Backtick == "u0060"

LowerSeq == <<"a","b","c","d","e","f","g","h","i","j","k","l","m",
              "n","o","p","q","r","s","t","u","v","w","x","y","z">>
UpperSeq == <<"A","B","C","D","E","F","G","H","I","J","K","L","M",
              "N","O","P","Q","R","S","T","U","V","W","X","Y","Z">>
LowerLetter == {LowerSeq[i] : i \in 1..26}
UpperLetter == {UpperSeq[i] : i \in 1..26}
Digit == {"0","1","2","3","4","5","6","7","8","9"}
DigitSeq == <<"0","1","2","3","4","5","6","7","8","9">>
\* \w
WordChar == LowerLetter \cup UpperLetter \cup Digit \cup {"_"}
\* \s
Whitespace == {" ", LF, TAB}

LowerOf == [c \in UpperLetter |-> LowerSeq[CHOOSE i \in 1..26 : UpperSeq[i] = c]]
toLowerChar(c) == IF c \in UpperLetter THEN LowerOf[c] ELSE c

(***************************************************************************)
(* String.prototype and Array.prototype helpers                            *)
(***************************************************************************)
Absent == [given |-> FALSE, v |-> <<>>]
Given(s) == [given |-> TRUE, v |-> s]
\* JavaScript truthiness of an optional string: undefined and '' are falsy
Truthy(o) == o.given /\ o.v # <<>>

toLowerCase(s) == IF s = <<>> THEN <<>> ELSE [i \in 1..Len(s) |-> toLowerChar(s[i])]

substring(s, a, b) == SubSeq(s, a + 1, IF b < Len(s) THEN b ELSE Len(s))

StartsAt(s, p, lit) ==
    /\ p >= 1
    /\ p + Len(lit) - 1 <= Len(s)
    /\ \A k \in 1..Len(lit) : s[p + k - 1] = lit[k]

includes(s, sub) == \E p \in 1..(Len(s) - Len(sub) + 1) : StartsAt(s, p, sub)

startsWith(s, lit) == StartsAt(s, 1, lit)
endsWith(s, lit) == StartsAt(s, Len(s) - Len(lit) + 1, lit)

\* the least index in lo..hi whose character is in (or, with neg, not in) the class; hi+1 if none
RECURSIVE ScanRange(_, _, _, _, _)
ScanRange(s, lo, hi, class, neg) ==
    IF lo > hi THEN hi + 1
    ELSE IF lo = hi THEN (IF (s[lo] \in class) # neg THEN lo ELSE hi + 1)
    ELSE LET mid == (lo + hi) \div 2
             l == ScanRange(s, lo, mid, class, neg)
         IN  IF l <= mid THEN l ELSE ScanRange(s, mid + 1, hi, class, neg)

\* the least index >= p whose character is in (or, with neg, not in) the class; Len(s)+1 if none
Scan(s, p, class, neg) == ScanRange(s, p, Len(s), class, neg)

\* the greatest index <= p whose character is not whitespace; 0 if none
RECURSIVE ScanBackNonWs(_, _)
ScanBackNonWs(s, p) ==
    IF p < 1 THEN 0
    ELSE IF s[p] \notin Whitespace THEN p
    ELSE ScanBackNonWs(s, p - 1)

trim(s) == SubSeq(s, Scan(s, 1, Whitespace, TRUE), ScanBackNonWs(s, Len(s)))

\* s.split(c) for a one-character separator
RECURSIVE splitChar(_, _)
splitChar(s, c) ==
    LET p == Scan(s, 1, {c}, FALSE)
    IN  IF p > Len(s) THEN <<s>>
        ELSE <<SubSeq(s, 1, p - 1)>> \o splitChar(SubSeq(s, p + 1, Len(s)), c)

\* the greatest index in lo..hi whose character is in (or, with neg, not in) the class; lo-1 if none
RECURSIVE ScanLast(_, _, _, _, _)
ScanLast(s, lo, hi, class, neg) ==
    IF lo > hi THEN lo - 1
    ELSE IF lo = hi THEN (IF (s[lo] \in class) # neg THEN lo ELSE lo - 1)
    ELSE LET mid == (lo + hi) \div 2
             r == ScanLast(s, mid + 1, hi, class, neg)
         IN  IF r > mid THEN r ELSE ScanLast(s, lo, mid, class, neg)

\* s.split(/\s+/): the pieces left and right of one run of whitespace, the run
\* nearest the middle of s, each split in the same way
RECURSIVE splitWs(_)
splitWs(s) ==
    LET mid == (Len(s) + 1) \div 2
        p == Scan(s, mid, Whitespace, FALSE)
        q == IF p <= Len(s) THEN p ELSE ScanLast(s, 1, mid - 1, Whitespace, FALSE)
        a == ScanLast(s, 1, q, Whitespace, TRUE) + 1
        e == Scan(s, q, Whitespace, TRUE) - 1
    IN  IF s = <<>> THEN <<s>>
        ELSE IF q = 0 THEN <<s>>
        ELSE splitWs(SubSeq(s, 1, a - 1)) \o splitWs(SubSeq(s, e + 1, Len(s)))

\* parts.join(sep)
RECURSIVE join(_, _)
join(parts, sep) ==
    IF parts = <<>> THEN <<>>
    ELSE IF Len(parts) = 1 THEN parts[1]
    ELSE LET h == Len(parts) \div 2
         IN  join(SubSeq(parts, 1, h), sep) \o sep \o join(SubSeq(parts, h + 1, Len(parts)), sep)

\* the pieces of a string that a replace() rewrote, put together again
Flatten(parts) == join(parts, <<>>)

\* the first index of the run of c that index i of s is in
RunStart(s, i, c) ==
    LET others == {q \in 1..(i - 1) : s[q] # c}
    IN  IF others = {} THEN 1 ELSE 1 + (CHOOSE q \in others : \A r \in others : r <= q)

\* s.replace(/cc/g, pair).replace(/c/g, single) for a character c: the runs of c
\* are rewritten pair by pair from the left, a last odd one as single
replacePairs(s, c, pair, single) ==
    IF s = <<>> THEN <<>>
    ELSE Flatten([i \in 1..Len(s) |->
            IF s[i] # c THEN <<s[i]>>
            ELSE IF (i - RunStart(s, i, c)) % 2 = 1 THEN <<>>
            ELSE IF i < Len(s) /\ s[i + 1] = c THEN pair
            ELSE single])

slice(a, from, to) == SubSeq(a, from + 1, IF to < Len(a) THEN to ELSE Len(a))

\* String(n) for a non-negative integer
RECURSIVE numStr(_)
numStr(n) ==
    IF n < 10 THEN <<DigitSeq[n + 1]>>
    ELSE numStr(n \div 10) \o <<DigitSeq[(n % 10) + 1]>>

Ellipsis == <<".",".",".">>

(***************************************************************************)
(* trimToWordLimit                                                         *)
(***************************************************************************)
\* the trim that keeps one word more than the limit
trimToWordLimitOneMore(text, limit) ==
    LET words == splitWs(text)
    IN  IF Len(words) <= limit THEN text
        ELSE join(slice(words, 0, limit + 1), <<" ">>) \o Ellipsis

\* the trim that also cuts a text of exactly limit words
trimToWordLimitStrict(text, limit) ==
    LET words == splitWs(text)
    IN  IF Len(words) < limit THEN text
        ELSE join(slice(words, 0, limit), <<" ">>) \o Ellipsis

trimToWordLimit(text, limit) ==
    LET words == splitWs(text)
    IN  IF Len(words) <= limit THEN text
        ELSE join(slice(words, 0, limit), <<" ">>) \o Ellipsis

(***************************************************************************)
(* applyFocusFilter                                                        *)
(***************************************************************************)
FocusShortLine == 50

\* the filter without the fallback to the whole summary
applyFocusFilterNoFallback(summ, focus) ==
    LET focusLower == toLowerCase(focus)
        lines == splitChar(summ, LF)
        Keep(line) == \/ includes(toLowerCase(line), focusLower)
                      \/ Len(line) < FocusShortLine
    IN  join(SelectSeq(lines, Keep), <<LF>>)

applyFocusFilter(summ, focus) ==
    LET focusLower == toLowerCase(focus)
        lines == splitChar(summ, LF)
        Keep(line) == \/ includes(toLowerCase(line), focusLower)
                      \/ Len(line) < FocusShortLine
        filtered == SelectSeq(lines, Keep)
    IN  IF 2 * Len(filtered) < Len(lines) THEN summ
        ELSE join(filtered, <<LF>>)

(***************************************************************************)
(* analyzeContent                                                          *)
(***************************************************************************)
Terminator == {".", "!", "?"}

\* text.match(/[^.!?]+[.!?]+/g) || [], scanning from index from
RECURSIVE matchSentences(_, _)
matchSentences(s, from) ==
    LET a == Scan(s, from, Terminator, TRUE)
        b == Scan(s, a, Terminator, FALSE)
        c == Scan(s, b, Terminator, TRUE)
    IN  IF b > Len(s) THEN <<>>
        ELSE <<SubSeq(s, a, c - 1)>> \o matchSentences(s, c)

SetMax(S) == CHOOSE x \in S : \A y \in S : y <= x

\* the first match of /\n\s*\n/ at or after from: <<first, last>> index, <<0, 0>> if none
RECURSIVE findBlankLine(_, _)
findBlankLine(s, from) ==
    LET p == Scan(s, from, {LF}, FALSE)
        e == Scan(s, p + 1, Whitespace, TRUE)
        lfs == {q \in (p + 1)..(e - 1) : s[q] = LF}
    IN  IF p > Len(s) THEN <<0, 0>>
        ELSE IF lfs # {} THEN <<p, SetMax(lfs)>>
        ELSE findBlankLine(s, e)

\* text.split(/\n\s*\n/)
RECURSIVE splitBlankLine(_)
splitBlankLine(s) ==
    LET m == findBlankLine(s, 1)
    IN  IF m[1] = 0 THEN <<s>>
        ELSE <<SubSeq(s, 1, m[1] - 1)>> \o splitBlankLine(SubSeq(s, m[2] + 1, Len(s)))

NonBlank(p) == trim(p) # <<>>

extractParagraphs(text) == SelectSeq(splitBlankLine(text), NonBlank)

\* line.match(/^#{1,6}\s+(.+)$|^(.+):$/): [matched, title]
sectionMatch(line) ==
    LET h == Scan(line, 1, {"#"}, TRUE) - 1
        e == Scan(line, h + 1, Whitespace, TRUE)
        n == Len(line)
    IN  IF h >= 1 /\ h <= 6 /\ e > h + 1 /\ e <= n
            THEN [matched |-> TRUE, title |-> SubSeq(line, e, n)]
        ELSE IF h >= 1 /\ h <= 6 /\ e > n /\ n >= h + 2
            THEN [matched |-> TRUE, title |-> <<line[n]>>]
        ELSE IF n >= 2 /\ line[n] = ":"
            THEN [matched |-> TRUE, title |-> SubSeq(line, 1, n - 1)]
        ELSE [matched |-> FALSE, title |-> <<>>]

\* Map: a sequence of [key, val] in insertion order
mapHas(m, k) == \E i \in 1..Len(m) : m[i].key = k
mapGet(m, k) == m[CHOOSE i \in 1..Len(m) : m[i].key = k].val
mapSet(m, k, v) ==
    IF mapHas(m, k)
        THEN [i \in 1..Len(m) |-> IF m[i].key = k THEN [key |-> k, val |-> v] ELSE m[i]]
    ELSE Append(m, [key |-> k, val |-> v])

Introduction == <<"I","n","t","r","o","d","u","c","t","i","o","n">>

\* the forEach over text.split('\n') that fills sections
RECURSIVE scanSections(_, _, _)
scanSections(lines, sections, lastSection) ==
    IF lines = <<>> THEN sections
    ELSE LET line == Head(lines)
             m == sectionMatch(line)
         IN  IF m.matched
                 THEN scanSections(Tail(lines), mapSet(sections, m.title, <<>>), m.title)
             ELSE IF trim(line) # <<>>
                 THEN scanSections(Tail(lines),
                          mapSet(sections, lastSection,
                              Append(IF mapHas(sections, lastSection)
                                       THEN mapGet(sections, lastSection) ELSE <<>>,
                                     line)),
                          lastSection)
             ELSE scanSections(Tail(lines), sections, lastSection)

extractSections(text) == scanSections(splitChar(text, LF), <<>>, Introduction)

isW(s, i) == i >= 1 /\ i <= Len(s) /\ s[i] \in WordChar
\* \b between s[p-1] and s[p]
wordBoundary(s, p) == isW(s, p - 1) # isW(s, p)

\* lower.match(/\b[a-z]{4,}\b/g) || [] on lower-cased text
RECURSIVE matchWords(_, _)
matchWords(s, from) ==
    LET a == Scan(s, from, LowerLetter, FALSE)
        e == Scan(s, a, LowerLetter, TRUE)
    IN  IF a > Len(s) THEN <<>>
        ELSE (IF e - a >= 4 /\ ~isW(s, a - 1) /\ ~isW(s, e)
                THEN <<SubSeq(s, a, e - 1)>> ELSE <<>>)
             \o matchWords(s, e)

\* the entries of isCommonWord's table that have four letters or more (the
\* keyword pattern never yields a shorter word)
CommonWords ==
    {<<"t","h","a","t">>,
     <<"h","a","v","e">>,
     <<"w","i","t","h">>,
     <<"t","h","i","s">>,
     <<"f","r","o","m">>,
     <<"t","h","e","y">>,
     <<"w","i","l","l">>,
     <<"w","o","u","l","d">>,
     <<"t","h","e","r","e">>,
     <<"t","h","e","i","r">>,
     <<"w","h","a","t">>,
     <<"a","b","o","u","t">>,
     <<"w","h","i","c","h">>,
     <<"w","h","e","n">>,
     <<"m","a","k","e">>,
     <<"l","i","k","e">>,
     <<"t","i","m","e">>,
     <<"j","u","s","t">>,
     <<"k","n","o","w">>,
     <<"t","a","k","e">>,
     <<"p","e","o","p","l","e">>,
     <<"i","n","t","o">>,
     <<"y","e","a","r">>,
     <<"y","o","u","r">>,
     <<"g","o","o","d">>,
     <<"s","o","m","e">>,
     <<"c","o","u","l","d">>,
     <<"t","h","e","m">>,
     <<"o","t","h","e","r">>,
     <<"t","h","a","n">>,
     <<"t","h","e","n">>,
     <<"l","o","o","k">>,
     <<"o","n","l","y">>,
     <<"c","o","m","e">>,
     <<"o","v","e","r">>,
     <<"t","h","i","n","k">>,
     <<"a","l","s","o">>,
     <<"b","a","c","k">>,
     <<"a","f","t","e","r">>,
     <<"w","o","r","k">>,
     <<"f","i","r","s","t">>,
     <<"w","e","l","l">>,
     <<"e","v","e","n">>,
     <<"w","a","n","t">>,
     <<"b","e","c","a","u","s","e">>,
     <<"t","h","e","s","e">>,
     <<"g","i","v","e">>,
     <<"m","o","s","t">>,
     <<"b","e","e","n">>,
     <<"w","e","r","e">>,
     <<"s","a","i","d">>,
     <<"h","a","v","i","n","g">>,
     <<"s","u","c","h">>}

isCommonWord(word) == toLowerCase(word) \in CommonWords

\* the forEach over words that fills keywords
RECURSIVE countKeywords(_, _)
countKeywords(words, keywords) ==
    IF words = <<>> THEN keywords
    ELSE LET word == Head(words)
         IN  IF ~isCommonWord(word)
                 THEN countKeywords(Tail(words),
                          mapSet(keywords, word,
                              (IF mapHas(keywords, word) THEN mapGet(keywords, word) ELSE 0) + 1))
             ELSE countKeywords(Tail(words), keywords)

extractKeywords(text) == countKeywords(matchWords(toLowerCase(text), 1), <<>>)

\* one match of /\b\d+(?:\.\d+)?%?\b/ starting at the digit s[p], which a \b
\* precedes: the index after the match, 0 if none
numberEnd(s, p) ==
    LET E == Scan(s, p, Digit, TRUE)
        hasFrac == E + 1 <= Len(s) /\ s[E] = "." /\ s[E + 1] \in Digit
        FE == Scan(s, E + 1, Digit, TRUE)
        pctAt(x) == x <= Len(s) /\ s[x] = "%" /\ isW(s, x + 1)
    IN  IF hasFrac /\ pctAt(FE) THEN FE + 1
        ELSE IF hasFrac /\ ~isW(s, FE) THEN FE
        ELSE IF pctAt(E) THEN E + 1
        ELSE IF ~isW(s, E) THEN E
        ELSE 0

\* text.match(/\b\d+(?:\.\d+)?%?\b/g) || []
RECURSIVE matchNumbers(_, _)
matchNumbers(s, from) ==
    LET p == Scan(s, from, Digit, FALSE)
        e == numberEnd(s, p)
    IN  IF p > Len(s) THEN <<>>
        ELSE IF isW(s, p - 1) THEN matchNumbers(s, Scan(s, p, Digit, TRUE))
        ELSE IF e = 0 THEN matchNumbers(s, Scan(s, p, Digit, TRUE))
        ELSE <<SubSeq(s, p, e - 1)>> \o matchNumbers(s, e)

\* s.charAt(i - 1): the character at index i, the empty string outside s
charAt(s, i) == IF i >= 1 /\ i <= Len(s) THEN s[i] ELSE ""

DateSeparator == {"/", "-"}

MonthPrefixes ==
    {<<"j","a","n">>, <<"f","e","b">>, <<"m","a","r">>, <<"a","p","r">>, <<"m","a","y">>, <<"j","u","n">>, <<"j","u","l">>, <<"a","u","g">>, <<"s","e","p">>, <<"o","c","t">>, <<"n","o","v">>, <<"d","e","c">>}

\* one match of /\b\d{1,2}[/-]\d{1,2}[/-]\d{2,4}\b/ starting at index p: the
\* index after the match, 0 if none
numericDateEnd(s, p) ==
    LET e1 == Scan(s, p, Digit, TRUE)
        e2 == Scan(s, e1 + 1, Digit, TRUE)
        e3 == Scan(s, e2 + 1, Digit, TRUE)
    IN  IF /\ charAt(s, p) \in Digit /\ ~isW(s, p - 1)
           /\ e1 - p <= 2 /\ charAt(s, e1) \in DateSeparator
           /\ e2 - (e1 + 1) \in {1, 2} /\ charAt(s, e2) \in DateSeparator
           /\ e3 - (e2 + 1) \in {2, 3, 4} /\ ~isW(s, e3)
        THEN e3 ELSE 0

\* one match of /\b(?:Jan|...|Dec)[a-z]* \d{1,2},? \d{4}\b/i starting at index
\* p: the index after the match, 0 if none
monthDateEnd(s, p) ==
    LET e == Scan(s, p + 3, LowerLetter \cup UpperLetter, TRUE)
        ed == Scan(s, e + 1, Digit, TRUE)
        c == IF charAt(s, ed) = "," THEN ed + 1 ELSE ed
    IN  IF /\ p + 2 <= Len(s) /\ ~isW(s, p - 1)
           /\ toLowerCase(SubSeq(s, p, p + 2)) \in MonthPrefixes
           /\ charAt(s, e) = " "
           /\ ed - (e + 1) \in {1, 2}
           /\ charAt(s, c) = " "
           /\ \A k \in 1..4 : charAt(s, c + k) \in Digit
           /\ ~isW(s, c + 5)
        THEN c + 5 ELSE 0

dateEnd(s, p) == IF numericDateEnd(s, p) # 0 THEN numericDateEnd(s, p) ELSE monthDateEnd(s, p)

\* text.match(/\b\d{1,2}[/-]\d{1,2}[/-]\d{2,4}\b|\b(?:Jan|...|Dec)[a-z]* \d{1,2},? \d{4}\b/gi) || []
RECURSIVE matchDates(_, _)
matchDates(s, from) ==
    LET starts == {p \in from..Len(s) : dateEnd(s, p) # 0}
        p == CHOOSE q \in starts : \A r \in starts : q <= r
    IN  IF starts = {} THEN <<>>
        ELSE <<SubSeq(s, p, dateEnd(s, p) - 1)>> \o matchDates(s, dateEnd(s, p))

\* the least p in lo..hi where lit occurs in s, 0 if none
RECURSIVE indexOfRange(_, _, _, _)
indexOfRange(s, lit, lo, hi) ==
    IF lo > hi THEN 0
    ELSE IF lo = hi THEN (IF StartsAt(s, lo, lit) THEN lo ELSE 0)
    ELSE LET mid == (lo + hi) \div 2
             l == indexOfRange(s, lit, lo, mid)
         IN  IF l # 0 THEN l ELSE indexOfRange(s, lit, mid + 1, hi)

\* the least p >= from where lit occurs in s, 0 if none
indexOfFrom(s, lit, from) == indexOfRange(s, lit, from, Len(s) - Len(lit) + 1)

Fence == <<Backtick, Backtick, Backtick>>

\* text.match(/'''[\s\S]*?'''/g) || [], with ' for the backtick
RECURSIVE matchCodeBlocks(_, _)
matchCodeBlocks(s, from) ==
    LET a == indexOfFrom(s, Fence, from)
        b == IF a = 0 THEN 0 ELSE indexOfFrom(s, Fence, a + 3)
    IN  IF b = 0 THEN <<>>
        ELSE <<SubSeq(s, a, b + 2)>> \o matchCodeBlocks(s, b + 3)

isQuestion(s) == endsWith(trim(s), <<"?">>)

\* the alternatives of extractActionableItems' four patterns, lower-cased (the
\* patterns are case-insensitive)
ModalPhrases ==
    {<<"w","i","l","l">>, <<"s","h","o","u","l","d">>, <<"m","u","s","t">>, <<"n","e","e","d"," ","t","o">>, <<"n","e","e","d","s"," ","t","o">>, <<"h","a","v","e"," ","t","o">>,
     <<"g","o","i","n","g"," ","t","o">>, <<"p","l","a","n"," ","t","o">>, <<"i","n","t","e","n","d"," ","t","o">>}
MarkerWords == {<<"t","o","d","o">>, <<"f","i","x","m","e">>, <<"a","c","t","i","o","n">>, <<"t","a","s","k">>, <<"n","e","x","t"," ","s","t","e","p">>}
LabelPhrases ==
    {<<"a","c","t","i","o","n"," ","i","t","e","m">>, <<"a","c","t","i","o","n"," ","i","t","e","m","s">>, <<"n","e","x","t"," ","s","t","e","p">>, <<"n","e","x","t"," ","s","t","e","p","s">>,
     <<"d","e","l","i","v","e","r","a","b","l","e">>, <<"d","e","l","i","v","e","r","a","b","l","e","s">>}
OwnerPhrases == {<<"r","e","s","p","o","n","s","i","b","l","e">>, <<"a","s","s","i","g","n","e","d"," ","t","o">>, <<"o","w","n","e","r">>}

\* /\b(?:will|should|...)\s+\w+/ on a lower-cased sentence
matchesModal(ls) ==
    \E p \in 1..Len(ls), alt \in ModalPhrases :
        /\ StartsAt(ls, p, alt)
        /\ ~isW(ls, p - 1)
        /\ LET e == p + Len(alt)
           IN  /\ e <= Len(ls)
               /\ ls[e] \in Whitespace
               /\ isW(ls, Scan(ls, e, Whitespace, TRUE))

\* /\b(?:alts):\s*.+/ on a lower-cased sentence: after the colon and some of the
\* whitespace that follows it there is a character other than a line feed
matchesLabel(ls, alts) ==
    \E p \in 1..Len(ls), alt \in alts :
        /\ StartsAt(ls, p, alt)
        /\ ~isW(ls, p - 1)
        /\ LET c == p + Len(alt)
           IN  /\ c <= Len(ls)
               /\ ls[c] = ":"
               /\ \E j \in (c + 1)..Scan(ls, c + 1, Whitespace, TRUE) :
                      j <= Len(ls) /\ ls[j] # LF

\* /\b(?:responsible|assigned to|owner):\s*\w+/ on a lower-cased sentence
matchesOwner(ls) ==
    \E p \in 1..Len(ls), alt \in OwnerPhrases :
        /\ StartsAt(ls, p, alt)
        /\ ~isW(ls, p - 1)
        /\ LET c == p + Len(alt)
           IN  /\ c <= Len(ls)
               /\ ls[c] = ":"
               /\ isW(ls, Scan(ls, c + 1, Whitespace, TRUE))

isActionable(sentence) ==
    LET ls == toLowerCase(sentence)
    IN  \/ matchesModal(ls)
        \/ matchesLabel(ls, MarkerWords)
        \/ matchesLabel(ls, LabelPhrases)
        \/ matchesOwner(ls)

extractActionableItems(sentences) == SelectSeq(sentences, isActionable)

\* The ContentAnalysis.  entities and lists are computed by the source but read
\* by no generator; dates are read by the timeline and questions generators only.
analyzeContent(text) ==
    LET sentences == matchSentences(text, 1)
    IN  [sentences       |-> sentences,
         paragraphs      |-> extractParagraphs(text),
         sections        |-> extractSections(text),
         keywords        |-> extractKeywords(text),
         dates           |-> matchDates(text, 1),
         numbers         |-> matchNumbers(text, 1),
         codeBlocks      |-> matchCodeBlocks(text, 1),
         questions       |-> SelectSeq(sentences, isQuestion),
         actionableItems |-> extractActionableItems(sentences)]

(***************************************************************************)
(* extractKeyPoints                                                        *)
(***************************************************************************)
\* a.indexOf(x): the 0-based index of the first element equal to x, -1 if none
indexOf(a, x) ==
    IF \E i \in 1..Len(a) : a[i] = x
        THEN (CHOOSE i \in 1..Len(a) : a[i] = x /\ \A j \in 1..(i - 1) : a[j] # x) - 1
    ELSE -1

Min(a, b) == IF a < b THEN a ELSE b

\* the forEach over analysis.keywords inside the scoring
RECURSIVE keywordScore(_, _)
keywordScore(keywords, ls) ==
    IF keywords = <<>> THEN 0
    ELSE (IF includes(ls, keywords[1].key) THEN Min(keywords[1].val, 3) ELSE 0)
         + keywordScore(Tail(keywords), ls)

scoreSentence(an, sentence) ==
    (IF Len(sentence) > 50 /\ Len(sentence) < 200 THEN 2 ELSE 0)
    + (IF \E i \in 1..Len(sentence) : sentence[i] \in Digit THEN 1 ELSE 0)
    + keywordScore(an.keywords, toLowerCase(sentence))
    + (IF indexOf(an.sentences, sentence) < 5 THEN 2 ELSE 0)

\* Array.prototype.sort((a, b) => b.score - a.score): stable, descending
RECURSIVE sortByScore(_)
sortByScore(a) ==
    IF a = <<>> THEN <<>>
    ELSE LET best == CHOOSE i \in 1..Len(a) :
                         /\ \A j \in 1..Len(a) : a[j].score <= a[i].score
                         /\ \A j \in 1..(i - 1) : a[j].score < a[i].score
         IN  <<a[best]>> \o sortByScore(SubSeq(a, 1, best - 1) \o SubSeq(a, best + 1, Len(a)))

extractKeyPoints(an, count, focus) ==
    LET HasFocus(s) == includes(toLowerCase(s), toLowerCase(focus.v))
        sentences == IF Truthy(focus) THEN SelectSeq(an.sentences, HasFocus)
                     ELSE an.sentences
        scored == [i \in 1..Len(sentences) |->
                      [sentence |-> sentences[i], score |-> scoreSentence(an, sentences[i])]]
        top == slice(sortByScore(scored), 0, count)
    IN  [i \in 1..Len(top) |-> trim(top[i].sentence)]

(***************************************************************************)
(* Summary generators                                                      *)
(***************************************************************************)
Bold(s) == <<"*","*">> \o s \o <<"*","*">>

\* a.map(x => prefix + x)
RECURSIVE mapPrefix(_, _)
mapPrefix(a, prefix) ==
    IF a = <<>> THEN <<>> ELSE <<prefix \o a[1]>> \o mapPrefix(Tail(a), prefix)

\* a.map((x, i) => (i + 1) + '. ' + x), the first element numbered first
RECURSIVE mapNumbered(_, _)
mapNumbered(a, first) ==
    IF a = <<>> THEN <<>>
    ELSE <<numStr(first) \o <<"."," ">> \o a[1]>> \o mapNumbered(Tail(a), first + 1)

RECURSIVE mapTrim(_)
mapTrim(a) == IF a = <<>> THEN <<>> ELSE <<trim(a[1])>> \o mapTrim(Tail(a))

generateBriefSummary(an, abstractionLevel) ==
    join(extractKeyPoints(an, 3, Absent), <<" ">>)

\* the forEach over analysis.sections: one block per section that has lines
RECURSIVE sectionBlocks(_)
sectionBlocks(sections) ==
    IF sections = <<>> THEN <<>>
    ELSE (IF Len(sections[1].val) > 0
            THEN <<Bold(sections[1].key) \o <<LF>> \o join(slice(sections[1].val, 0, 3), <<" ">>)>>
          ELSE <<>>)
         \o sectionBlocks(Tail(sections))

generateDetailedSummary(an, abstractionLevel) ==
    join(slice(sectionBlocks(an.sections), 0, 5), <<LF, LF>>)

generateBulletPoints(an, focus) ==
    join(mapPrefix(extractKeyPoints(an, 10, focus), <<Bullet, " ">>), <<LF>>)

NoActionItems == <<"N","o"," ","e","x","p","l","i","c","i","t"," ","a","c","t","i","o","n"," ","i","t","e","m","s"," ","f","o","u","n","d",".">>

generateActionItems(an) ==
    IF Len(an.actionableItems) = 0 THEN NoActionItems
    ELSE join(mapNumbered(slice(an.actionableItems, 0, 10), 1), <<LF>>)

\* the entries of isTechnicalTerm's table that have four letters or more
TechnicalTerms ==
    {<<"a","l","g","o","r","i","t","h","m">>,
     <<"f","u","n","c","t","i","o","n">>,
     <<"m","e","t","h","o","d">>,
     <<"c","l","a","s","s">>,
     <<"i","n","t","e","r","f","a","c","e">>,
     <<"d","a","t","a","b","a","s","e">>,
     <<"s","e","r","v","e","r">>,
     <<"c","l","i","e","n","t">>,
     <<"p","r","o","t","o","c","o","l">>,
     <<"f","r","a","m","e","w","o","r","k">>,
     <<"l","i","b","r","a","r","y">>,
     <<"c","o","m","p","o","n","e","n","t">>,
     <<"m","o","d","u","l","e">>,
     <<"s","y","s","t","e","m">>,
     <<"a","r","c","h","i","t","e","c","t","u","r","e">>,
     <<"i","m","p","l","e","m","e","n","t","a","t","i","o","n">>,
     <<"p","e","r","f","o","r","m","a","n","c","e">>,
     <<"o","p","t","i","m","i","z","a","t","i","o","n">>,
     <<"c","o","n","f","i","g","u","r","a","t","i","o","n">>,
     <<"d","e","p","l","o","y","m","e","n","t">>,
     <<"i","n","t","e","g","r","a","t","i","o","n">>,
     <<"a","u","t","h","e","n","t","i","c","a","t","i","o","n">>,
     <<"a","u","t","h","o","r","i","z","a","t","i","o","n">>,
     <<"e","n","c","r","y","p","t","i","o","n">>,
     <<"c","a","c","h","e">>,
     <<"q","u","e","u","e">>,
     <<"t","h","r","e","a","d">>,
     <<"p","r","o","c","e","s","s">>,
     <<"m","e","m","o","r","y">>,
     <<"n","e","t","w","o","r","k">>}

isTechnicalTerm(word) == toLowerCase(word) \in TechnicalTerms

IsTechnicalKeyword(kw) == isTechnicalTerm(kw.key)

RECURSIVE keysOf(_)
keysOf(m) == IF m = <<>> THEN <<>> ELSE <<m[1].key>> \o keysOf(Tail(m))

\* entries sorted by descending count, stable
byCount(m) ==
    sortByScore([i \in 1..Len(m) |-> [key |-> m[i].key, val |-> m[i].val, score |-> m[i].val]])

ImplementationTerms ==
    {<<"i","m","p","l","e","m","e","n","t">>, <<"a","l","g","o","r","i","t","h","m">>, <<"f","u","n","c","t","i","o","n">>, <<"m","e","t","h","o","d">>, <<"c","l","a","s","s">>, <<"i","n","t","e","r","f","a","c","e">>, <<"a","p","i">>}
RecommendationTerms ==
    {<<"r","e","c","o","m","m","e","n","d">>, <<"s","u","g","g","e","s","t">>, <<"s","h","o","u","l","d">>, <<"p","r","o","p","o","s","e">>, <<"a","d","v","i","s","e">>}

\* /a|b|c/i.test(s)
testAny(s, terms) == \E t \in terms : includes(toLowerCase(s), t)

IsImplementation(s) == testAny(s, ImplementationTerms)
IsRecommendation(s) == testAny(s, RecommendationTerms)

generateTechnicalSummary(an, abstractionLevel) ==
    LET technicalTerms == slice(byCount(SelectSeq(an.keywords, IsTechnicalKeyword)), 0, 5)
        implementation == slice(SelectSeq(an.sentences, IsImplementation), 0, 3)
        parts ==
            (IF Len(an.codeBlocks) > 0
               THEN <<<<"*","*","C","o","d","e"," ","E","x","a","m","p","l","e","s","*","*",":"," ">> \o numStr(Len(an.codeBlocks)) \o <<" ","c","o","d","e"," ","b","l","o","c","k","s"," ","f","o","u","n","d">>>>
             ELSE <<>>)
            \o (IF Len(technicalTerms) > 0
                  THEN <<<<"*","*","T","e","c","h","n","i","c","a","l"," ","c","o","n","c","e","p","t","s","*","*",":"," ">> \o join(keysOf(technicalTerms), <<","," ">>)>>
                ELSE <<>>)
            \o (IF Len(implementation) > 0
                  THEN <<<<"*","*","I","m","p","l","e","m","e","n","t","a","t","i","o","n"," ","d","e","t","a","i","l","s","*","*",":",LF>> \o join(implementation, <<" ">>)>>
                ELSE <<>>)
    IN  join(parts, <<LF, LF>>)

generateExecutiveSummary(an) ==
    LET recommendations == slice(SelectSeq(an.sentences, IsRecommendation), 0, 3)
        parts ==
            (IF Len(an.paragraphs) > 0
               THEN <<<<"*","*","O","v","e","r","v","i","e","w","*","*",":"," ">> \o substring(an.paragraphs[1], 0, 200) \o Ellipsis>>
             ELSE <<>>)
            \o (IF Len(an.numbers) > 0
                  THEN <<<<"*","*","K","e","y"," ","M","e","t","r","i","c","s","*","*",":"," ">> \o join(slice(an.numbers, 0, 5), <<","," ">>)>>
                ELSE <<>>)
            \o (IF Len(recommendations) > 0
                  THEN <<<<"*","*","R","e","c","o","m","m","e","n","d","a","t","i","o","n","s","*","*",":",LF>>
                         \o join(mapPrefix(mapTrim(recommendations), <<Bullet, " ">>), <<LF>>)>>
                ELSE <<>>)
    IN  join(parts, <<LF, LF>>)

generateKeyInsights(an, abstractionLevel) ==
    LET topKeywords == keysOf(slice(byCount(an.keywords), 0, 5))
        insights ==
            (IF Len(topKeywords) > 0
               THEN <<<<"M","a","i","n"," ","t","h","e","m","e","s",":"," ">> \o join(topKeywords, <<",", " ">>)>>
             ELSE <<>>)
            \o (IF Len(an.numbers) > 5 THEN <<<<"C","o","n","t","a","i","n","s"," ","s","i","g","n","i","f","i","c","a","n","t"," ","q","u","a","n","t","i","t","a","t","i","v","e"," ","d","a","t","a">>>> ELSE <<>>)
            \o (IF Len(an.questions) > 3
                  THEN <<<<"R","a","i","s","e","s"," ","m","u","l","t","i","p","l","e"," ","q","u","e","s","t","i","o","n","s"," ","f","o","r"," ","c","o","n","s","i","d","e","r","a","t","i","o","n">>>> ELSE <<>>)
            \o (IF Len(an.codeBlocks) > 0
                  THEN <<<<"I","n","c","l","u","d","e","s"," ","t","e","c","h","n","i","c","a","l"," ","i","m","p","l","e","m","e","n","t","a","t","i","o","n"," ","d","e","t","a","i","l","s">>>> ELSE <<>>)
    IN  join(mapNumbered(insights, 1), <<LF>>)

generateImpliedQuestions(an) ==
    LET topKeywords == slice(byCount(an.keywords), 0, 3)
    IN  (IF Len(an.numbers) > 0
           THEN <<<<"W","h","a","t"," ","d","o"," ","t","h","e","s","e"," ","m","e","t","r","i","c","s"," ","i","n","d","i","c","a","t","e"," ","a","b","o","u","t"," ","p","e","r","f","o","r","m","a","n","c","e","?">>>> ELSE <<>>)
        \o (IF Len(an.dates) > 0
              THEN <<<<"W","h","a","t"," ","i","s"," ","t","h","e"," ","s","i","g","n","i","f","i","c","a","n","c","e"," ","o","f"," ","t","h","i","s"," ","t","i","m","e","l","i","n","e","?">>>> ELSE <<>>)
        \o (IF Len(an.actionableItems) > 0
              THEN <<<<"W","h","o"," ","i","s"," ","r","e","s","p","o","n","s","i","b","l","e"," ","f","o","r"," ","i","m","p","l","e","m","e","n","t","i","n","g"," ","t","h","e","s","e"," ","a","c","t","i","o","n","s","?">>>> ELSE <<>>)
        \o (IF Len(topKeywords) > 0
              THEN <<<<"H","o","w"," ","d","o","e","s"," ">> \o topKeywords[1].key \o <<" ","r","e","l","a","t","e"," ","t","o"," ","t","h","e"," ","m","a","i","n"," ","o","b","j","e","c","t","i","v","e","?">>>>
            ELSE <<>>)

generateQuestions(an) ==
    LET questions == IF Len(an.questions) > 0 THEN an.questions
                     ELSE generateImpliedQuestions(an)
    IN  join(mapNumbered(mapTrim(slice(questions, 0, 5)), 1), <<LF>>)

PositiveTerms ==
    {<<"a","d","v","a","n","t","a","g","e">>, <<"b","e","n","e","f","i","t">>, <<"p","o","s","i","t","i","v","e">>, <<"i","m","p","r","o","v","e">>, <<"e","n","h","a","n","c","e">>, <<"e","f","f","i","c","i","e","n","t">>}
NegativeTerms ==
    {<<"d","i","s","a","d","v","a","n","t","a","g","e">>, <<"d","r","a","w","b","a","c","k">>, <<"n","e","g","a","t","i","v","e">>, <<"i","s","s","u","e">>, <<"p","r","o","b","l","e","m">>, <<"c","h","a","l","l","e","n","g","e">>}

IsPro(s) == testAny(s, PositiveTerms)
\* the else branch taken as a second if
IsConNotExclusive(s) == testAny(s, NegativeTerms)

IsCon(s) == ~testAny(s, PositiveTerms) /\ testAny(s, NegativeTerms)

generateProsConsList(an) ==
    LET pros == mapTrim(SelectSeq(an.sentences, IsPro))
        cons == mapTrim(SelectSeq(an.sentences, IsCon))
    IN  <<"*","*","P","r","o","s",":","*","*",LF>> \o join(mapPrefix(slice(pros, 0, 5), <<Bullet, " ">>), <<LF>>)
        \o <<LF,LF,"*","*","C","o","n","s",":","*","*",LF>> \o join(mapPrefix(slice(cons, 0, 5), <<Bullet, " ">>), <<LF>>)

NoTimeline == <<"N","o"," ","t","e","m","p","o","r","a","l"," ","i","n","f","o","r","m","a","t","i","o","n"," ","f","o","u","n","d"," ","f","o","r"," ","t","i","m","e","l","i","n","e"," ","g","e","n","e","r","a","t","i","o","n",".">>

\* the forEach over analysis.dates
RECURSIVE timelineEntries(_, _)
timelineEntries(an, dates) ==
    IF dates = <<>> THEN <<>>
    ELSE LET Related(s) == includes(s, dates[1])
             relatedSentences == SelectSeq(an.sentences, Related)
         IN  (IF Len(relatedSentences) > 0
                THEN <<Bold(dates[1]) \o <<":", " ">> \o trim(relatedSentences[1])>>
              ELSE <<>>)
             \o timelineEntries(an, Tail(dates))

generateTimeline(an) ==
    IF Len(an.dates) = 0 THEN NoTimeline
    ELSE join(timelineEntries(an, an.dates), <<LF>>)

generateCreativeSummary(an) ==
    LET keyElements == extractKeyPoints(an, 5, Absent)
        narrative == join(keyElements, <<" ","M","e","a","n","w","h","i","l","e",","," ">>)
    IN  <<"I","n"," ","t","h","i","s"," ","n","a","r","r","a","t","i","v","e",","," ","w","e"," ","d","i","s","c","o","v","e","r"," ","t","h","a","t"," ">> \o toLowerCase(narrative)
        \o <<" ","T","h","i","s"," ","j","o","u","r","n","e","y"," ","r","e","v","e","a","l","s"," ","t","h","e"," ","i","n","t","e","r","c","o","n","n","e","c","t","e","d"," ","n","a","t","u","r","e"," ","o","f"," ","t","h","e","s","e"," ","e","l","e","m","e","n","t","s",".">>

generateAcademicSummary(an) ==
    LET thesis == IF Len(an.paragraphs) > 0 THEN substring(an.paragraphs[1], 0, 150)
                  ELSE <<"T","h","e"," ","t","e","x","t"," ","p","r","e","s","e","n","t","s"," ","m","u","l","t","i","p","l","e"," ","c","o","n","c","e","p","t","s",".">>
        evidence == extractKeyPoints(an, 3, Absent)
        conclusion == IF Len(an.paragraphs) > 0
                          THEN substring(an.paragraphs[Len(an.paragraphs)], 0, 150)
                      ELSE <<"F","u","r","t","h","e","r"," ","r","e","s","e","a","r","c","h"," ","i","s"," ","w","a","r","r","a","n","t","e","d",".">>
    IN  <<"*","*","T","h","e","s","i","s","*","*",":"," ">> \o thesis \o <<LF,LF,"*","*","E","v","i","d","e","n","c","e","*","*",":",LF>>
        \o join(mapPrefix(evidence, <<Bullet, " ">>), <<LF>>)
        \o <<LF,LF,"*","*","C","o","n","c","l","u","s","i","o","n","*","*",":"," ">> \o conclusion

\* the text a template literal gives a[i]: 'undefined' for a missing element
templateElement(a, i) == IF i < Len(a) THEN a[i + 1] ELSE <<"u","n","d","e","f","i","n","e","d">>

generateConversationalSummary(an) ==
    LET points == extractKeyPoints(an, 5, Absent)
    IN  <<"S","o"," ","b","a","s","i","c","a","l","l","y",","," ","h","e","r","e","'","s"," ","w","h","a","t"," ","w","e","'","r","e"," ","l","o","o","k","i","n","g"," ","a","t",":"," ">> \o templateElement(points, 0)
        \o <<" ","A","l","s","o"," ","w","o","r","t","h"," ","n","o","t","i","n","g"," ","t","h","a","t"," ">> \o templateElement(points, 1)
        \o <<" ","A","n","d"," ","g","e","t"," ","t","h","i","s"," ","-"," ">>
        \o (IF 2 < Len(points) /\ points[3] # <<>> THEN points[3]
            ELSE <<"t","h","e","r","e"," ","a","r","e"," ","s","o","m","e"," ","i","n","t","e","r","e","s","t","i","n","g"," ","d","e","t","a","i","l","s"," ","h","e","r","e",".">>)

ComparisonTerms ==
    {<<"c","o","m","p","a","r","e","d"," ","t","o">>, <<"v","e","r","s","u","s">>, <<"u","n","l","i","k","e">>, <<"s","i","m","i","l","a","r"," ","t","o">>, <<"d","i","f","f","e","r","e","n","t"," ","f","r","o","m">>, <<"c","o","n","t","r","a","s","t">>}

IsComparison(s) == testAny(s, ComparisonTerms)

NoComparisons == <<"N","o"," ","c","l","e","a","r"," ","c","o","m","p","a","r","i","s","o","n","s"," ","f","o","u","n","d"," ","i","n"," ","t","h","e"," ","t","e","x","t",".">>

generateComparisonSummary(an) ==
    LET comparisons == SelectSeq(an.sentences, IsComparison)
        prosConsResult == generateProsConsList(an)
        aspects ==
            (IF Len(comparisons) > 0
               THEN <<<<"*","*","D","i","r","e","c","t"," ","C","o","m","p","a","r","i","s","o","n","s","*","*",":",LF>>
                      \o join(mapPrefix(mapTrim(slice(comparisons, 0, 3)), <<Bullet, " ">>), <<LF>>)>>
             ELSE <<>>)
            \o (IF prosConsResult # <<"*","*","P","r","o","s",":","*","*",LF,LF,LF,"*","*","C","o","n","s",":","*","*",LF>> THEN <<prosConsResult>>
                ELSE <<>>)
    IN  IF join(aspects, <<LF, LF>>) # <<>> THEN join(aspects, <<LF, LF>>) ELSE NoComparisons

\* the dispatch with inclusive thresholds
generateAutoSummaryInclusive(an, abstractionLevel) ==
    IF Len(an.actionableItems) >= 5 THEN generateActionItems(an)
    ELSE IF Len(an.codeBlocks) >= 2 THEN generateTechnicalSummary(an, abstractionLevel)
    ELSE IF Len(an.numbers) >= 10 THEN generateExecutiveSummary(an)
    ELSE generateDetailedSummary(an, abstractionLevel)

generateAutoSummary(an, abstractionLevel) ==
    IF Len(an.actionableItems) > 5 THEN generateActionItems(an)
    ELSE IF Len(an.codeBlocks) > 2 THEN generateTechnicalSummary(an, abstractionLevel)
    ELSE IF Len(an.numbers) > 10 THEN generateExecutiveSummary(an)
    ELSE generateDetailedSummary(an, abstractionLevel)

(***************************************************************************)
(* Quotes and statistics                                                   *)
(***************************************************************************)
extractRelevantQuotes(text, summ) ==
    LET summaryLower == toLowerCase(summ)
        Relevant(sentence) ==
            LET words == splitWs(toLowerCase(sentence))
                matchCount == Cardinality({i \in 1..Len(words) :
                                  Len(words[i]) > 4 /\ includes(summaryLower, words[i])})
            IN  matchCount > 3 /\ Len(sentence) > 30 /\ Len(sentence) < 150
    IN  slice(SelectSeq(matchSentences(text, 1), Relevant), 0, 3)

\* a.map(x => before + x + after)
RECURSIVE mapWrap(_, _, _)
mapWrap(a, before, after) ==
    IF a = <<>> THEN <<>>
    ELSE <<before \o a[1] \o after>> \o mapWrap(Tail(a), before, after)

FormatMarkdown == <<"m","a","r","k","d","o","w","n">>
FormatPlain == <<"p","l","a","i","n">>
FormatJson == <<"j","s","o","n">>
FormatHtml == <<"h","t","m","l">>
FormatOutline == <<"o","u","t","l","i","n","e">>

appendQuotes(summ, quotes, format) ==
    IF Len(quotes) = 0 THEN summ
    ELSE IF format = FormatMarkdown
        THEN summ \o <<LF,LF,"#","#","#"," ","R","e","l","e","v","a","n","t"," ","Q","u","o","t","e","s",LF,LF>>
                  \o join(mapWrap(quotes, <<">", " ", DQ>>, <<DQ>>), <<LF, LF>>)
    ELSE IF format = FormatPlain
        THEN summ \o <<LF,LF,"R","e","l","e","v","a","n","t"," ","Q","u","o","t","e","s",":",LF,LF>>
                  \o join(mapWrap(quotes, <<DQ>>, <<DQ>>), <<LF, LF>>)
    ELSE summ

\* (text.match(/[.!?]+/g) || []).length
RECURSIVE countTerminatorRuns(_, _)
countTerminatorRuns(s, from) ==
    LET a == Scan(s, from, Terminator, FALSE)
    IN  IF a > Len(s) THEN 0
        ELSE 1 + countTerminatorRuns(s, Scan(s, a, Terminator, TRUE))

\* Math.round(a / b) for a >= 0, b > 0
roundDiv(a, b) == (2 * a + b) \div (2 * b)
\* the quotient rounded down
floorDiv(a, b) == a \div b

\* Math.ceil(a / b) for a >= 0, b > 0
ceilDiv(a, b) == (a + b - 1) \div b

WordsPerMinute == 200

generateStats(text) ==
    LET words == Len(splitWs(text))
        sentences == countTerminatorRuns(text, 1)
    IN  [words               |-> words,
         sentences           |-> sentences,
         paragraphs          |-> Len(extractParagraphs(text)),
         avgWordsPerSentence |-> IF sentences > 0 THEN roundDiv(words, sentences) ELSE 0,
         characters          |-> Len(text),
         readingTime         |-> ceilDiv(words, WordsPerMinute)]

jsonEscapeChar(c) ==
    IF c = DQ THEN <<BSL, DQ>>
    ELSE IF c = BSL THEN <<BSL, BSL>>
    ELSE IF c = LF THEN <<BSL, "n">>
    ELSE IF c = TAB THEN <<BSL, "t">>
    ELSE <<c>>

\* the characters of s as JSON.stringify writes them inside a string literal
jsonEscape(s) ==
    IF s = <<>> THEN <<>> ELSE Flatten([i \in 1..Len(s) |-> jsonEscapeChar(s[i])])

jsonString(s) == <<DQ>> \o jsonEscape(s) \o <<DQ>>

\* JSON.stringify({ summary, stats }, null, 2)
statsJson(summ, stats) ==
    <<"{",LF," "," ",DQ,"s","u","m","m","a","r","y",DQ,":"," ">> \o jsonString(summ)
    \o <<",",LF," "," ",DQ,"s","t","a","t","s",DQ,":"," ","{",LF," "," "," "," ",DQ,"w","o","r","d","s",DQ,":"," ">> \o numStr(stats.words)
    \o <<",",LF," "," "," "," ",DQ,"s","e","n","t","e","n","c","e","s",DQ,":"," ">> \o numStr(stats.sentences)
    \o <<",",LF," "," "," "," ",DQ,"p","a","r","a","g","r","a","p","h","s",DQ,":"," ">> \o numStr(stats.paragraphs)
    \o <<",",LF," "," "," "," ",DQ,"a","v","g","W","o","r","d","s","P","e","r","S","e","n","t","e","n","c","e",DQ,":"," ">> \o numStr(stats.avgWordsPerSentence)
    \o <<",",LF," "," "," "," ",DQ,"c","h","a","r","a","c","t","e","r","s",DQ,":"," ">> \o numStr(stats.characters)
    \o <<",",LF," "," "," "," ",DQ,"r","e","a","d","i","n","g","T","i","m","e",DQ,":"," ">> \o numStr(stats.readingTime)
    \o <<LF," "," ","}",LF,"}">>

appendStats(summ, stats, format) ==
    IF format = FormatMarkdown
        THEN summ \o <<LF,LF,"-","-","-",LF,LF,"*","*","D","o","c","u","m","e","n","t"," ","S","t","a","t","i","s","t","i","c","s",":","*","*",LF,"-"," ","W","o","r","d","s",":"," ">> \o numStr(stats.words)
                  \o <<LF,"-"," ","S","e","n","t","e","n","c","e","s",":"," ">> \o numStr(stats.sentences)
                  \o <<LF,"-"," ","R","e","a","d","i","n","g"," ","t","i","m","e",":"," ","~">> \o numStr(stats.readingTime) \o <<" ","m","i","n","u","t","e","s">>
    ELSE IF format = FormatJson THEN statsJson(summ, stats)
    ELSE summ

(***************************************************************************)
(* formatOutput                                                            *)
(***************************************************************************)
\* s.replace(/\n\n/g, '</p><p>').replace(/\n/g, '<br>')
htmlBreaks(s) == replacePairs(s, LF, <<"<","/","p",">","<","p",">">>, <<"<","b","r",">">>)

\* line.replace(/\*\*/g, '')
stripBold(s) == replacePairs(s, "*", <<>>, <<"*">>)

\* line.match(/^\d+\. /)
isNumberedLine(line) ==
    LET e == Scan(line, 1, Digit, TRUE)
    IN  e > 1 /\ StartsAt(line, e, <<"."," ">>)

\* the outline that indents a numbered line like any other line
outlineLineUnnumbered(line) ==
    IF startsWith(line, <<"*","*">>) /\ endsWith(line, <<"*","*">>) THEN stripBold(line)
    ELSE IF startsWith(line, <<Bullet, " ">>) THEN <<" "," ">> \o line
    ELSE <<" "," "," "," ">> \o line

outlineLine(line) ==
    IF startsWith(line, <<"*","*">>) /\ endsWith(line, <<"*","*">>) THEN stripBold(line)
    ELSE IF startsWith(line, <<Bullet, " ">>) THEN <<" "," ">> \o line
    ELSE IF isNumberedLine(line) THEN <<" "," ">> \o line
    ELSE <<" "," "," "," ">> \o line

RECURSIVE mapOutline(_)
mapOutline(lines) ==
    IF lines = <<>> THEN <<>> ELSE <<outlineLine(lines[1])>> \o mapOutline(Tail(lines))

\* the emphasis characters alone
MarkdownEmphasis == {"*", "_"}

MarkdownPunctuation == {"*", "_", "#", Backtick}

\* s.replace(/[*_#']/g, ''), with ' for the backtick
stripPunctuation(s) == SelectSeq(s, LAMBDA c : c \notin MarkdownPunctuation)

\* s.replace(/\[([^\]]+)\]\([^)]+\)/g, '$1')
RECURSIVE collapseLinks(_)
collapseLinks(s) ==
    LET p == Scan(s, 1, {"["}, FALSE)
        q == Scan(s, p + 1, {"]"}, FALSE)
        r == Scan(s, q + 2, {")"}, FALSE)
    IN  IF p > Len(s) THEN s
        ELSE IF q > p + 1 /\ q + 1 <= Len(s) /\ s[q + 1] = "("
                /\ r > q + 2 /\ r <= Len(s)
            THEN SubSeq(s, 1, p - 1) \o SubSeq(s, p + 1, q - 1)
                 \o collapseLinks(SubSeq(s, r + 1, Len(s)))
        ELSE SubSeq(s, 1, p) \o collapseLinks(SubSeq(s, p + 1, Len(s)))

\* now: the clock's value when formatOutput runs, as new Date().toISOString()
\* and new Date().toLocaleDateString() print it
formatOutput(cont, format, mode, now) ==
    IF format = FormatJson
        THEN [content  |-> <<"{",LF," "," ",DQ,"m","o","d","e",DQ,":"," ">> \o jsonString(mode)
                           \o <<",",LF," "," ",DQ,"s","u","m","m","a","r","y",DQ,":"," ">> \o jsonString(cont)
                           \o <<",",LF," "," ",DQ,"t","i","m","e","s","t","a","m","p",DQ,":"," ">> \o jsonString(now.iso) \o <<LF,"}">>,
              metadata |-> FormatJson]
    ELSE IF format = FormatHtml
        THEN [content  |-> <<"<","!","D","O","C","T","Y","P","E"," ","h","t","m","l",">",LF,"<","h","t","m","l",">",LF,"<","h","e","a","d",">",LF," "," "," "," ","<","t","i","t","l","e",">","S","u","m","m","a","r","y"," ","-"," ">> \o mode
                           \o <<"<","/","t","i","t","l","e",">",LF," "," "," "," ","<","m","e","t","a"," ","c","h","a","r","s","e","t","=",DQ,"u","t","f","-","8",DQ,">",LF,"<","/","h","e","a","d",">",LF,"<","b","o","d","y",">",LF," "," "," "," ","<","h","1",">","S","u","m","m","a","r","y","<","/","h","1",">",LF," "," "," "," ","<","d","i","v"," ","c","l","a","s","s","=",DQ,"s","u","m","m","a","r","y","-","c","o","n","t","e","n","t",DQ,">",LF," "," "," "," "," "," "," "," ">>
                           \o htmlBreaks(cont)
                           \o <<LF," "," "," "," ","<","/","d","i","v",">",LF," "," "," "," ","<","f","o","o","t","e","r",">",LF," "," "," "," "," "," "," "," ","<","p",">","G","e","n","e","r","a","t","e","d"," ","o","n"," ">>
                           \o now.localeDate
                           \o <<"<","/","p",">",LF," "," "," "," ","<","/","f","o","o","t","e","r",">",LF,"<","/","b","o","d","y",">",LF,"<","/","h","t","m","l",">">>,
              metadata |-> FormatHtml]
    ELSE IF format = FormatOutline
        THEN [content  |-> join(mapOutline(splitChar(cont, LF)), <<LF>>),
              metadata |-> FormatOutline]
    ELSE IF format = FormatPlain
        THEN [content  |-> collapseLinks(stripPunctuation(cont)),
              metadata |-> FormatPlain]
    ELSE [content |-> cont, metadata |-> FormatMarkdown]

(***************************************************************************)
(* tool.execute                                                            *)
(***************************************************************************)
ModeAuto == <<"a","u","t","o">>
ModeBrief == <<"b","r","i","e","f">>
ModeDetailed == <<"d","e","t","a","i","l","e","d">>
ModeBulletPoints == <<"b","u","l","l","e","t","_","p","o","i","n","t","s">>
ModeActionItems == <<"a","c","t","i","o","n","_","i","t","e","m","s">>
ModeTechnical == <<"t","e","c","h","n","i","c","a","l">>
ModeExecutive == <<"e","x","e","c","u","t","i","v","e">>

ModeKeyInsights == <<"k","e","y","_","i","n","s","i","g","h","t","s">>
ModeQuestions == <<"q","u","e","s","t","i","o","n","s">>
ModeProsCons == <<"p","r","o","s","_","c","o","n","s">>
ModeTimeline == <<"t","i","m","e","l","i","n","e">>
ModeCreative == <<"c","r","e","a","t","i","v","e">>
ModeAcademic == <<"a","c","a","d","e","m","i","c">>
ModeConversational == <<"c","o","n","v","e","r","s","a","t","i","o","n","a","l">>
ModeComparison == <<"c","o","m","p","a","r","i","s","o","n">>

\* the switch on mode
generateSummary(a, an) ==
    IF a.mode = ModeBrief THEN generateBriefSummary(an, a.abstraction_level)
    ELSE IF a.mode = ModeDetailed THEN generateDetailedSummary(an, a.abstraction_level)
    ELSE IF a.mode = ModeBulletPoints THEN generateBulletPoints(an, a.focus)
    ELSE IF a.mode = ModeKeyInsights THEN generateKeyInsights(an, a.abstraction_level)
    ELSE IF a.mode = ModeActionItems THEN generateActionItems(an)
    ELSE IF a.mode = ModeTechnical THEN generateTechnicalSummary(an, a.abstraction_level)
    ELSE IF a.mode = ModeExecutive THEN generateExecutiveSummary(an)
    ELSE IF a.mode = ModeQuestions THEN generateQuestions(an)
    ELSE IF a.mode = ModeProsCons THEN generateProsConsList(an)
    ELSE IF a.mode = ModeTimeline THEN generateTimeline(an)
    ELSE IF a.mode = ModeCreative THEN generateCreativeSummary(an)
    ELSE IF a.mode = ModeAcademic THEN generateAcademicSummary(an)
    ELSE IF a.mode = ModeConversational THEN generateConversationalSummary(an)
    ELSE IF a.mode = ModeComparison THEN generateComparisonSummary(an)
    ELSE generateAutoSummary(an, a.abstraction_level)

ErrNeither == <<"E","i","t","h","e","r"," ","t","e","x","t"," ","o","r"," ","f","i","l","e"," ","p","a","r","a","m","e","t","e","r"," ","m","u","s","t"," ","b","e"," ","p","r","o","v","i","d","e","d">>
ErrBoth == <<"C","a","n","n","o","t"," ","p","r","o","v","i","d","e"," ","b","o","t","h"," ","t","e","x","t"," ","a","n","d"," ","f","i","l","e"," ","p","a","r","a","m","e","t","e","r","s">>
ErrLevel == <<"A","b","s","t","r","a","c","t","i","o","n"," ","l","e","v","e","l"," ","m","u","s","t"," ","b","e"," ","b","e","t","w","e","e","n"," ","1"," ","(","v","e","r","y"," ","c","o","n","c","r","e","t","e",")"," ","a","n","d"," ","5"," ","(","v","e","r","y"," ","a","b","s","t","r","a","c","t",")">>
ErrNotFound == <<"F","i","l","e"," ","n","o","t"," ","f","o","u","n","d",":"," ">>
ErrRead == <<"F","a","i","l","e","d"," ","t","o"," ","r","e","a","d"," ","f","i","l","e",":"," ">>
\* the message of the error readFileSync throws
ReadErrorMessage == <<"E","A","C","C","E","S",":"," ","p","e","r","m","i","s","s","i","o","n"," ","d","e","n","i","e","d">>

NoData == [present |-> FALSE]
Failure(msg) == [success |-> FALSE, output |-> <<>>, error |-> msg, data |-> NoData]

NaN == [kind |-> "NaN", n |-> 0]
NegInfinity == [kind |-> "-Infinity", n |-> 0]
Finite(n) == [kind |-> "finite", n |-> n]

\* Math.round((1 - summaryLength / originalLength) * 100).  Math.round rounds a
\* half up; where the exact quotient lies on a half, the double the source
\* computes may fall on either side of it, and both roundings are outcomes.
compressionRatio(summaryLength, originalLength) ==
    IF originalLength = 0
        THEN (IF summaryLength = 0 THEN {NaN} ELSE {NegInfinity})
    ELSE LET num == (originalLength - summaryLength) * 200 + originalLength
             den == 2 * originalLength
         IN  IF num % den = 0 THEN {Finite(num \div den - 1), Finite(num \div den)}
             ELSE {Finite(num \div den)}

\* the two values the clock takes while formatOutput runs
Clocks ==
    {[iso |-> <<"2","0","2","6","-","0","1","-","0","2","T","0","3",":","0","4",":","0","5",".","6","7","8","Z">>, localeDate |-> <<"1","/","2","/","2","0","2","6">>],
     [iso |-> <<"2","0","2","6","-","1","1","-","1","2","T","1","3",":","1","4",":","1","5",".","6","7","8","Z">>, localeDate |-> <<"1","1","/","1","2","/","2","0","2","6">>]}

\* the order with the quotes appended before the focus filter
StageOrderQuotesFirst ==
    <<"analyze", "generate", "quotes", "focus", "stats", "format", "trim", "return", "done">>

\* the order of the statements of execute after the validation and the file read
StageOrder ==
    <<"analyze", "generate", "focus", "quotes", "stats", "format", "trim", "return", "done">>

After(p) == StageOrder[(CHOOSE i \in 1..Len(StageOrder) : StageOrder[i] = p) + 1]

Ran(name, in, out) == [name |-> name, in |-> in, out |-> out]

Validate ==
    /\ pc = "start"
    /\ \/ /\ ~Truthy(args.text) /\ ~Truthy(args.file)
          /\ result' = Failure(ErrNeither)
          /\ pc' = "done"
          /\ UNCHANGED content
       \/ /\ Truthy(args.text) \/ Truthy(args.file)
          /\ Truthy(args.text) /\ Truthy(args.file)
          /\ result' = Failure(ErrBoth)
          /\ pc' = "done"
          /\ UNCHANGED content
       \/ /\ Truthy(args.text) \/ Truthy(args.file)
          /\ ~(Truthy(args.text) /\ Truthy(args.file))
          /\ args.abstraction_level < 1 \/ args.abstraction_level > 5
          /\ result' = Failure(ErrLevel)
          /\ pc' = "done"
          /\ UNCHANGED content
       \/ /\ Truthy(args.text) \/ Truthy(args.file)
          /\ ~(Truthy(args.text) /\ Truthy(args.file))
          /\ ~(args.abstraction_level < 1 \/ args.abstraction_level > 5)
          /\ content' = (IF Truthy(args.text) THEN args.text.v ELSE <<>>)
          /\ pc' = (IF Truthy(args.file) THEN "read" ELSE "analyze")
          /\ UNCHANGED result
    /\ UNCHANGED <<args, fsys, analysis, summary, formatted, stages>>

\* the file read without its try block: the error of readFileSync leaves execute
ReadFileUncaught ==
    /\ pc = "read"
    /\ \/ /\ ~fsys.exists
          /\ result' = Failure(ErrNotFound \o args.file.v)
          /\ pc' = "done"
          /\ UNCHANGED <<content, stages>>
       \/ /\ fsys.exists /\ ~fsys.readable
          /\ pc' = "thrown"
          /\ stages' = Append(stages, Ran("read", args.file.v, <<>>))
          /\ UNCHANGED <<content, result>>
       \/ /\ fsys.exists /\ fsys.readable
          /\ content' = fsys.content
          /\ pc' = "analyze"
          /\ stages' = Append(stages, Ran("read", args.file.v, fsys.content))
          /\ UNCHANGED result
    /\ UNCHANGED <<args, fsys, analysis, summary, formatted>>

ReadFile ==
    /\ pc = "read"
    /\ \/ /\ ~fsys.exists
          /\ result' = Failure(ErrNotFound \o args.file.v)
          /\ pc' = "done"
          /\ UNCHANGED <<content, stages>>
       \/ /\ fsys.exists /\ ~fsys.readable
          /\ result' = Failure(ErrRead \o ReadErrorMessage)
          /\ pc' = "done"
          /\ stages' = Append(stages, Ran("read", args.file.v, <<>>))
          /\ UNCHANGED content
       \/ /\ fsys.exists /\ fsys.readable
          /\ content' = fsys.content
          /\ pc' = "analyze"
          /\ stages' = Append(stages, Ran("read", args.file.v, fsys.content))
          /\ UNCHANGED result
    /\ UNCHANGED <<args, fsys, analysis, summary, formatted>>

Analyze ==
    /\ pc = "analyze"
    /\ analysis' = analyzeContent(content)
    /\ stages' = Append(stages, Ran("analyze", content, content))
    /\ pc' = After(pc)
    /\ UNCHANGED <<args, fsys, content, summary, formatted, result>>

Generate ==
    /\ pc = "generate"
    /\ summary' = generateSummary(args, analysis)
    /\ stages' = Append(stages, Ran("generate", content, summary'))
    /\ pc' = After(pc)
    /\ UNCHANGED <<args, fsys, content, analysis, formatted, result>>

FocusFilter ==
    /\ pc = "focus"
    /\ IF Truthy(args.focus)
         THEN /\ summary' = applyFocusFilter(summary, args.focus.v)
              /\ stages' = Append(stages, Ran("focus", summary, summary'))
       ELSE UNCHANGED <<summary, stages>>
    /\ pc' = After(pc)
    /\ UNCHANGED <<args, fsys, content, analysis, formatted, result>>

AddQuotes ==
    /\ pc = "quotes"
    /\ IF args.include_quotes
         THEN /\ summary' = appendQuotes(summary, extractRelevantQuotes(content, summary),
                                         args.format)
              /\ stages' = Append(stages, Ran("quotes", summary, summary'))
       ELSE UNCHANGED <<summary, stages>>
    /\ pc' = After(pc)
    /\ UNCHANGED <<args, fsys, content, analysis, formatted, result>>

AddStats ==
    /\ pc = "stats"
    /\ IF args.include_stats
         THEN /\ summary' = appendStats(summary, generateStats(content), args.format)
              /\ stages' = Append(stages, Ran("stats", summary, summary'))
       ELSE UNCHANGED <<summary, stages>>
    /\ pc' = After(pc)
    /\ UNCHANGED <<args, fsys, content, analysis, formatted, result>>

Format ==
    /\ pc = "format"
    /\ \E now \in Clocks :
          formatted' = formatOutput(summary, args.format, args.mode, now)
    /\ stages' = Append(stages, Ran("format", summary, formatted'.content))
    /\ pc' = After(pc)
    /\ UNCHANGED <<args, fsys, content, analysis, summary, result>>

Trim ==
    /\ pc = "trim"
    /\ IF args.max_length > 0
         THEN /\ formatted' = [formatted EXCEPT
                                  !.content = trimToWordLimit(formatted.content, args.max_length)]
              /\ stages' = Append(stages, Ran("trim", formatted.content, formatted'.content))
       ELSE UNCHANGED <<formatted, stages>>
    /\ pc' = After(pc)
    /\ UNCHANGED <<args, fsys, content, analysis, summary, result>>

Return ==
    /\ pc = "return"
    /\ \E ratio \in compressionRatio(Len(formatted.content), Len(content)) :
          result' = [success |-> TRUE,
                     output  |-> formatted.content,
                     error   |-> <<>>,
                     data    |-> [present          |-> TRUE,
                                  mode             |-> args.mode,
                                  format           |-> args.format,
                                  abstractionLevel |-> args.abstraction_level,
                                  originalLength   |-> Len(content),
                                  summaryLength    |-> Len(formatted.content),
                                  compressionRatio |-> ratio,
                                  source           |-> IF Truthy(args.file)
                                                         THEN <<"f","i","l","e",":"," ">> \o args.file.v
                                                       ELSE <<"t","e","x","t"," ","i","n","p","u","t">>,
                                  method           |-> <<"p","a","t","t","e","r","n","-","b","a","s","e","d">>,
                                  metadata         |-> formatted.metadata]]
    /\ pc' = After(pc)
    /\ UNCHANGED <<args, fsys, content, analysis, summary, formatted, stages>>

Execute ==
    \/ Validate
    \/ ReadFile
    \/ Analyze
    \/ Generate
    \/ FocusFilter
    \/ AddQuotes
    \/ AddStats
    \/ Format
    \/ Trim
    \/ Return

(***************************************************************************)
(* Inputs                                                                  *)
(***************************************************************************)
Rep(s, n) == IF n = 0 THEN <<>> ELSE join([i \in 1..n |-> s], <<>>)

SeqsUpTo(A, n) == UNION {[1..k -> A] : k \in 0..n}

\* how far past each threshold of the auto dispatch the sample texts go
AutoExtra == 1
\* the largest max_length
MaxLength == 3
\* the abstraction levels run from 0 to MaxLevel
MaxLevel == 6

ActionSentence == <<"W","e"," ","m","u","s","t"," ","g","o","."," ">>
CodeBlock == <<Backtick, Backtick, Backtick, "x", Backtick, Backtick, Backtick, " ">>
NumberToken == <<"7"," ">>

\* a text with k actionable sentences, c code blocks and n numeric tokens
AutoText(k, c, n) == Rep(ActionSentence, k) \o Rep(CodeBlock, c) \o Rep(NumberToken, n)

AutoTexts ==
    {AutoText(k, c, n) : k \in 5..(5 + AutoExtra), c \in 2..(2 + AutoExtra),
                         n \in 10..(10 + AutoExtra)}

TextSections ==
    <<"i","n","t","r","o"," ","l","i","n","e",LF,"#"," ","T","i","t","l","e",LF,"a","l","p","h","a"," ","b","r","a","v","o"," ","d","e","l","t","a"," ","g","a","m","m","a"," ","s","i","g","m","a"," ","o","m","e","g","a","."," ","W","e"," ","s","h","o","u","l","d"," ","i","m","p","l","e","m","e","n","t"," ","2"," ","a","p","i",".",LF,"N","o","t","e","s",":",LF,"z","u","l","u"," ","y","a","n","k","e","e"," ","x","r","a","y"," ","w","h","i","s","k","e","y"," ","v","i","c","t","o","r"," ","u","n","i","f","o","r","m"," ","t","a","n","g","o"," ","s","i","e","r","r","a",".">>
TextKeyPoints == <<" ","a","."," ","b","."," ","c","."," ","d","."," ","e","."," ","z","z","z","z","."," ","a","."," ","q","1",".">>
TextSpaced == <<" "," ","l","e","a","d"," ","w","o","r","d","s"," ","h","e","r","e","."," ",LF>>
TextNoSentence == <<"n","o"," ","t","e","r","m","i","n","a","t","o","r">>

\* list lines under a next-steps label, without and with terminators
TextNextSteps == <<"N","e","x","t"," ","S","t","e","p","s",":",LF,"-"," ","M","i","k","e"," ","t","o"," ","c","o","m","p","l","e","t","e"," ","A","P","I"," ","b","y"," ","F","r","i","d","a","y",LF,"-"," ","L","i","s","a"," ","t","o"," ","f","i","n","a","l","i","z","e"," ","i","c","o","n","s"," ","b","y"," ","n","e","x","t"," ","w","e","e","k">>
TextNextStepsPunctuated == <<"N","e","x","t"," ","S","t","e","p","s",":",LF,"-"," ","M","i","k","e"," ","t","o"," ","c","o","m","p","l","e","t","e"," ","A","P","I"," ","b","y"," ","F","r","i","d","a","y",".",LF,"-"," ","L","i","s","a"," ","t","o"," ","f","i","n","a","l","i","z","e"," ","i","c","o","n","s"," ","b","y"," ","n","e","x","t"," ","w","e","e","k",".">>
TextProsCons == <<"T","h","i","s"," ","a","p","p","r","o","a","c","h"," ","o","f","f","e","r","s"," ","s","i","g","n","i","f","i","c","a","n","t"," ","b","e","n","e","f","i","t","."," ","H","o","w","e","v","e","r",","," ","t","h","e","r","e"," ","i","s"," ","a"," ","m","a","j","o","r"," ","d","r","a","w","b","a","c","k",".">>
\* seven sentences with a positive term, two of them with a negative term too,
\* six with a negative term only and one with neither
TextProsConsMixed ==
    <<"A"," ","b","e","n","e","f","i","t","."," ","A","n"," ","i","s","s","u","e"," ","w","i","t","h"," ","a"," ","b","e","n","e","f","i","t","."," ","P","l","a","i","n","."," ","A"," ","p","r","o","b","l","e","m","."," ","W","e"," ","i","m","p","r","o","v","e","."," ","A"," ","d","r","a","w","b","a","c","k","."," ","I","t"," ","i","s"," ","e","f","f","i","c","i","e","n","t","."," ","S","o"," ","p","o","s","i","t","i","v","e","."," ","A","n"," ","a","d","v","a","n","t","a","g","e","."," ","A"," ","n","e","g","a","t","i","v","e"," ","a","n","d"," ","p","o","s","i","t","i","v","e"," ","o","n","e","."," ","A"," ","c","h","a","l","l","e","n","g","e","."," ","O","n","e"," ","i","s","s","u","e","."," ","T","w","o"," ","i","s","s","u","e","s","."," ","L","a","s","t"," ","p","r","o","b","l","e","m",".">>
TextDated == <<"W","e"," ","m","e","t"," ","o","n"," ","1","/","2","/","2","0","2","6","."," ","L","a","u","n","c","h"," ","i","s"," ","J","a","n"," ","5",","," ","2","0","2","6"," ","f","o","r"," ","a","l","l","."," ","A","g","a","i","n"," ","1","/","2","/","2","0","2","6"," ","h","e","r","e",".">>
TextDateNoSentence == <<"L","a","u","n","c","h"," ","i","s"," ","1","/","2","/","2","0","2","6">>
TextShortParagraph == <<"R","e","v","e","n","u","e"," ","g","r","e","w"," ","5"," ","p","e","r","c","e","n","t","."," ","W","e"," ","s","h","o","u","l","d"," ","i","n","v","e","s","t",".">>
TextLongParagraph == Rep(<<"l","o","r","e","m"," ","i","p","s","u","m"," ">>, 17) \o <<"e","n","d",".">>
TextRepeatedTitle == <<"#"," ","A",LF,"o","n","e",LF,"#"," ","B",LF,"t","w","o",LF,"#"," ","A",LF,"t","h","r","e","e">>

OtherTexts ==
    {TextSections, TextKeyPoints, TextSpaced, TextNoSentence, TextNextSteps,
     TextNextStepsPunctuated, TextProsCons, TextProsConsMixed, TextDated, TextDateNoSentence,
     TextShortParagraph, TextLongParagraph, TextRepeatedTitle}

FilePath == <<"n","o","t","e","s",".","t","x","t">>

NoFile == [exists |-> FALSE, readable |-> FALSE, content |-> <<>>]
FileSystems ==
    {NoFile, [exists |-> TRUE, readable |-> FALSE, content |-> <<>>]}
    \cup {[exists |-> TRUE, readable |-> TRUE, content |-> c] :
             c \in {<<>>, TextSpaced, TextSections}}

ModeUnknown == <<"h","a","i","k","u">>
Modes ==
    {ModeAuto, ModeBrief, ModeDetailed, ModeBulletPoints, ModeKeyInsights, ModeActionItems,
     ModeTechnical, ModeExecutive, ModeQuestions, ModeProsCons, ModeTimeline, ModeCreative,
     ModeAcademic, ModeConversational, ModeComparison, ModeUnknown}
FormatUnknown == <<"x","m","l">>
Formats == {FormatMarkdown, FormatPlain, FormatJson, FormatHtml, FormatOutline, FormatUnknown}
FocusTerms == {Absent, Given(<<>>), Given(<<"M","U","S","T">>), Given(<<"a","l","p","h","a">>)}

DefaultArgs ==
    [text |-> Absent, file |-> Absent, mode |-> ModeAuto, format |-> FormatMarkdown,
     max_length |-> 0, include_quotes |-> FALSE, include_stats |-> FALSE,
     focus |-> Absent, abstraction_level |-> 3]

\* text and file given, empty or absent, every abstraction level, every file
ValidationArgs ==
    {[DefaultArgs EXCEPT !.text = t, !.file = f, !.abstraction_level = l, !.mode = m] :
        t \in {Absent, Given(<<>>), Given(TextSpaced)},
        f \in {Absent, Given(<<>>), Given(FilePath)},
        l \in 0..MaxLevel,
        m \in {ModeAuto, ModeActionItems}}

\* every text in every mode
ModeArgs ==
    {[DefaultArgs EXCEPT !.text = Given(t), !.mode = m, !.focus = f] :
        t \in AutoTexts \cup OtherTexts, m \in Modes, f \in {Absent, Given(<<"M","U","S","T">>)}}

\* a file in every mode
FileArgs == {[DefaultArgs EXCEPT !.file = Given(FilePath), !.mode = m] : m \in Modes}

\* every combination of the options
OptionArgs ==
    {[DefaultArgs EXCEPT !.text = Given(t), !.mode = m, !.format = fmt, !.focus = f,
                         !.include_quotes = q, !.include_stats = st, !.max_length = k] :
        t \in {TextSections, AutoText(5 + AutoExtra, 2, 10)},
        m \in {ModeAuto, ModeBulletPoints},
        fmt \in Formats, f \in FocusTerms, q \in BOOLEAN, st \in BOOLEAN,
        k \in 0..MaxLength}

Idle == <<>>

InitExecute ==
    /\ pc = "start"
    /\ \/ args \in ValidationArgs \cup FileArgs /\ fsys \in FileSystems
       \/ args \in ModeArgs \cup OptionArgs /\ fsys = NoFile
    /\ content = <<>>
    /\ analysis = Idle
    /\ summary = <<>>
    /\ formatted = Idle
    /\ stages = <<>>
    /\ result = Idle

(***************************************************************************)
(* Direct calls of trimToWordLimit, applyFocusFilter and extractKeyPoints  *)
(***************************************************************************)
\* the longest text given to trimToWordLimit
MaxTrimLen == 4
\* the most lines of a summary given to applyFocusFilter
MaxFocusLines == 3
\* the most sentences of a text given to extractKeyPoints
MaxSentences == 7

TrimAlphabet == {"a", " ", LF}

\* a text of five words, cut by every limit below five
TrimScenario == <<"o","n","e"," ","t","w","o"," ","t","h","r","e","e"," ","f","o","u","r"," ","f","i","v","e">>

InitTrim ==
    /\ pc = "trim.call"
    /\ args \in {[text |-> t, limit |-> n] :
                    t \in SeqsUpTo(TrimAlphabet, MaxTrimLen) \cup {TrimScenario},
                    n \in 0..MaxLength}
    /\ result = Idle
    /\ fsys = NoFile
    /\ content = <<>>
    /\ analysis = Idle
    /\ summary = <<>>
    /\ formatted = Idle
    /\ stages = <<>>

\* trimToWordLimit(text, limit)
TrimOnce ==
    /\ pc = "trim.call"
    /\ result' = [once |-> trimToWordLimit(args.text, args.limit)]
    /\ pc' = "trim.once"
    /\ UNCHANGED <<args, fsys, content, analysis, summary, formatted, stages>>

\* trimToWordLimit applied to its own result
TrimAgain ==
    /\ pc = "trim.once"
    /\ result' = [once |-> result.once, twice |-> trimToWordLimit(result.once, args.limit)]
    /\ pc' = "trim.twice"
    /\ UNCHANGED <<args, fsys, content, analysis, summary, formatted, stages>>

FocusTerm == <<"O","x">>
\* lines with and without the focus term, below, at and above FocusShortLine
FocusLines ==
    {<<>>, <<"a","b">>, <<"a","n"," ","o","x">>, Rep(<<"x">>, FocusShortLine - 1), Rep(<<"x">>, FocusShortLine),
     <<"o","X">> \o Rep(<<"y">>, FocusShortLine)}

InitFocus ==
    /\ pc = "focus.call"
    /\ args \in {[summary |-> join(ls, <<LF>>), focus |-> f] :
                    ls \in SeqsUpTo(FocusLines, MaxFocusLines) \ {<<>>},
                    f \in {FocusTerm, <<"z","z">>, <<>>}}
    /\ result = Idle
    /\ fsys = NoFile
    /\ content = <<>>
    /\ analysis = Idle
    /\ summary = <<>>
    /\ formatted = Idle
    /\ stages = <<>>

\* applyFocusFilter(summary, focus, analysis)
CallFocusFilter ==
    /\ pc = "focus.call"
    /\ result' = applyFocusFilter(args.summary, args.focus)
    /\ pc' = "focus.returned"
    /\ UNCHANGED <<args, fsys, content, analysis, summary, formatted, stages>>

SentenceSamples == {<<" ","a",".">>, <<" ","z","z","z","z",".">>}

InitKeyPoints ==
    /\ pc = "keypoints.call"
    /\ args \in {[text |-> join(ss, <<>>), count |-> c, focus |-> f] :
                    ss \in SeqsUpTo(SentenceSamples, MaxSentences),
                    c \in {1, 3, 10}, f \in {Absent, Given(<<"Z">>)}}
    /\ result = Idle
    /\ fsys = NoFile
    /\ content = <<>>
    /\ analysis = Idle
    /\ summary = <<>>
    /\ formatted = Idle
    /\ stages = <<>>

\* extractKeyPoints(analyzeContent(text), count, focus)
CallKeyPoints ==
    /\ pc = "keypoints.call"
    /\ analysis' = analyzeContent(args.text)
    /\ result' = extractKeyPoints(analysis', args.count, args.focus)
    /\ pc' = "keypoints.returned"
    /\ UNCHANGED <<args, fsys, content, summary, formatted, stages>>

(***************************************************************************)
(* Specifications                                                          *)
(***************************************************************************)
Init == InitExecute \/ InitTrim
Next == Execute \/ TrimOnce \/ TrimAgain
Spec == Init /\ [][Next]_vars

NextTrim == TrimOnce \/ TrimAgain
SpecTrim == InitTrim /\ [][NextTrim]_vars

NextFocus == CallFocusFilter
SpecFocus == InitFocus /\ [][NextFocus]_vars

NextKeyPoints == CallKeyPoints
SpecKeyPoints == InitKeyPoints /\ [][NextKeyPoints]_vars

(***************************************************************************)
(* Claims about tool.execute                                               *)
(***************************************************************************)
Done == pc = "done"
StageNames == [i \in 1..Len(stages) |-> stages[i].name]
HasStage(name) == \E i \in 1..Len(stages) : stages[i].name = name
StageOf(name) == stages[CHOOSE i \in 1..Len(stages) : stages[i].name = name]
\* the stages of the pipeline, without the file read that precedes them
IsPipelineStage(st) == st.name # "read"
Pipeline == SelectSeq(stages, IsPipelineStage)
PipelineNames == [i \in 1..Len(Pipeline) |-> Pipeline[i].name]
LevelOutOfRange == args.abstraction_level < 1 \/ args.abstraction_level > 5

\* C1: execute returns success=false with a non-empty error, and runs no
\* analysis, generation, formatting or file read, when neither text nor file is
\* provided, when both are provided, or when abstraction_level is below 1 or
\* above 5; in every other case with a text input the validation passes and
\* the pipeline runs.
C1_ValidationShortCircuits ==
    Done =>
        /\ (\/ ~args.text.given /\ ~args.file.given
            \/ args.text.given /\ args.file.given
            \/ LevelOutOfRange)
           => (~result.success /\ result.error # <<>> /\ stages = <<>>)
        /\ (args.text.given /\ ~args.file.given /\ ~LevelOutOfRange)
           => (result.success /\ HasStage("analyze") /\ HasStage("generate")
               /\ HasStage("format"))

\* the stages the claim C2 lists, in its order, for the options of this call
ClaimedStages(withFocus) ==
    <<"analyze", "generate">>
    \o (IF withFocus THEN <<"focus">> ELSE <<>>)
    \o (IF args.include_quotes THEN <<"quotes">> ELSE <<>>)
    \o (IF args.include_stats THEN <<"stats">> ELSE <<>>)
    \o <<"format">>
    \o (IF args.max_length > 0 THEN <<"trim">> ELSE <<>>)

\* C2: in every successful invocation the stages run once each in the order
\* analyze, generate, focus filter (only with a focus, and always with a
\* non-empty one), quotes (only with include_quotes), stats (only with
\* include_stats), format, trim (only with max_length > 0); each stage consumes
\* the output of the stage before it and the last output is the result.
C2_StageOrder ==
    (Done /\ result.success) =>
        /\ \/ PipelineNames = ClaimedStages(FALSE) /\ ~Truthy(args.focus)
           \/ PipelineNames = ClaimedStages(TRUE) /\ args.focus.given
        /\ \A i \in 2..Len(Pipeline) : Pipeline[i].in = Pipeline[i - 1].out
        /\ result.output = Pipeline[Len(Pipeline)].out

\* a successful invocation in which all seven stages ran, the focus filter
\* dropped a line, quotes and statistics were appended and the trim cut the
\* formatted content
C2_Witness ==
    /\ Done /\ result.success
    /\ PipelineNames = <<"analyze", "generate", "focus", "quotes", "stats", "format", "trim">>
    /\ \A n \in {"focus", "quotes", "stats", "trim"} : StageOf(n).in # StageOf(n).out

\* the fourteen modes the switch of execute names
NamedModes ==
    {<<"b","r","i","e","f">>, <<"d","e","t","a","i","l","e","d">>, <<"b","u","l","l","e","t","_","p","o","i","n","t","s">>, <<"k","e","y","_","i","n","s","i","g","h","t","s">>, <<"a","c","t","i","o","n","_","i","t","e","m","s">>,
     <<"t","e","c","h","n","i","c","a","l">>, <<"e","x","e","c","u","t","i","v","e">>, <<"q","u","e","s","t","i","o","n","s">>, <<"p","r","o","s","_","c","o","n","s">>, <<"t","i","m","e","l","i","n","e">>,
     <<"c","r","e","a","t","i","v","e">>, <<"a","c","a","d","e","m","i","c">>, <<"c","o","n","v","e","r","s","a","t","i","o","n","a","l">>, <<"c","o","m","p","a","r","i","s","o","n">>}

\* C3: in mode auto, and in any mode that is none of the fourteen named ones,
\* the summary is the output of the generator the first matching rule picks:
\* more than 5 actionable items, action_items; else more than 2 code blocks,
\* technical; else more than 10 numeric tokens, executive; else detailed.
C3_AutoDispatch ==
    (HasStage("generate") /\ args.mode \notin NamedModes) =>
        StageOf("generate").out =
            (IF Len(analysis.actionableItems) > 5 THEN generateActionItems(analysis)
             ELSE IF Len(analysis.codeBlocks) > 2
                 THEN generateTechnicalSummary(analysis, args.abstraction_level)
             ELSE IF Len(analysis.numbers) > 10 THEN generateExecutiveSummary(analysis)
             ELSE generateDetailedSummary(analysis, args.abstraction_level))

\* an unnamed mode on a text with exactly 5 actionable items, 3 code blocks and
\* 11 numbers: the technical summary, which differs from the other three
C3_Witness ==
    /\ HasStage("generate")
    /\ args.mode = ModeUnknown
    /\ Len(analysis.actionableItems) = 5
    /\ Len(analysis.codeBlocks) = 3
    /\ Len(analysis.numbers) = 11
    /\ StageOf("generate").out = generateTechnicalSummary(analysis, args.abstraction_level)
    /\ StageOf("generate").out
          \notin {generateActionItems(analysis), generateExecutiveSummary(analysis),
                  generateDetailedSummary(analysis, args.abstraction_level)}

\* C4: in every result with success=true, data.compressionRatio is a finite
\* integer, also when the content to summarize is empty.
C4_RatioFinite ==
    (Done /\ result.success) => result.data.compressionRatio.kind = "finite"

\* the number of non-empty whitespace-delimited words of s
WordCount(s) == Cardinality({i \in 1..Len(s) :
                    s[i] \notin Whitespace /\ (i = 1 \/ s[i - 1] \in Whitespace)})

\* round((1 - summaryWords / originalWords) * 100), either way on an exact half
ClaimedRatios(summaryWords, originalWords) ==
    LET num == (originalWords - summaryWords) * 200 + originalWords
        den == 2 * originalWords
    IN  {Finite(num \div den)}
        \cup (IF num % den = 0 THEN {Finite(num \div den - 1)} ELSE {})

\* C5: for every successful invocation with a non-empty original text,
\* data.compressionRatio is round((1 - summaryWords/originalWords) * 100), the
\* word counts being those of the returned summary and of the original text
\* (counted as text.split(/\s+/).length, or as the non-empty words).
C5_RatioOfWords ==
    (Done /\ result.success /\ content # <<>>) =>
        \/ result.data.compressionRatio
              \in ClaimedRatios(Len(splitWs(result.output)), Len(splitWs(content)))
        \/ /\ WordCount(content) > 0
           /\ result.data.compressionRatio
                 \in ClaimedRatios(WordCount(result.output), WordCount(content))

\* C6: an invocation with text equal to the empty string, no file and mode auto
\* succeeds and returns success=true with an empty output.
C6_EmptyTextSucceeds ==
    (Done /\ args.text = Given(<<>>) /\ ~args.file.given /\ args.mode = ModeAuto
       /\ ~LevelOutOfRange)
        => (result.success /\ result.output = <<>>)

(***************************************************************************)
(* Claims about applyFocusFilter, trimToWordLimit and extractKeyPoints     *)
(***************************************************************************)
RECURSIVE IsSubsequence(_, _)
IsSubsequence(a, b) ==
    IF a = <<>> THEN TRUE
    ELSE IF b = <<>> THEN FALSE
    ELSE IF a[1] = b[1] THEN IsSubsequence(Tail(a), Tail(b))
    ELSE IsSubsequence(a, Tail(b))

ContainsIgnoringCase(line, term) ==
    \E p \in 1..(Len(line) - Len(term) + 1) :
        \A k \in 1..Len(term) : toLowerChar(line[p + k - 1]) = toLowerChar(term[k])

\* C7: applyFocusFilter returns the summary unchanged, or a subsequence of its
\* lines each of which contains the focus (whatever the case of the letters) or
\* is shorter than 50 characters; of n lines it never returns fewer than
\* ceil(n/2).
C7_FocusFilterKeepsHalf ==
    pc = "focus.returned" =>
        LET given == splitChar(args.summary, LF)
            kept == splitChar(result, LF)
        IN  /\ \/ result = args.summary
               \/ /\ IsSubsequence(kept, given)
                  /\ \A i \in 1..Len(kept) :
                        ContainsIgnoringCase(kept[i], args.focus) \/ Len(kept[i]) < 50
            /\ 2 * Len(kept) >= Len(given)

\* a call that dropped a long line without the focus and kept a long line
\* with it
C7_Witness ==
    /\ pc = "focus.returned"
    /\ result # args.summary
    /\ Len(splitChar(result, LF)) < Len(splitChar(args.summary, LF))
    /\ \E i \in 1..Len(splitChar(result, LF)) :
          /\ Len(splitChar(result, LF)[i]) >= 50
          /\ ContainsIgnoringCase(splitChar(result, LF)[i], args.focus)

\* C8: trimToWordLimit(trimToWordLimit(s, n), n) = trimToWordLimit(s, n) for
\* every string s and every limit n >= 0.
C8_TrimIdempotent ==
    pc = "trim.twice" => result.twice = result.once

\* a text that starts with whitespace and that the trim cut, trimmed again
C8_Witness ==
    /\ pc = "trim.twice"
    /\ args.text # <<>> /\ args.text[1] \in Whitespace
    /\ result.once # args.text
    /\ result.twice = result.once

\* the indices at which a maximal run of whitespace starts
WsRunStarts(s) ==
    {i \in 1..Len(s) : s[i] \in Whitespace /\ (i = 1 \/ s[i - 1] \notin Whitespace)}

\* the last index of the run of whitespace that starts at i
WsRunEnd(s, i) ==
    CHOOSE e \in i..Len(s) :
        /\ \A q \in i..e : s[q] \in Whitespace
        /\ e = Len(s) \/ s[e + 1] \notin Whitespace

NthWsRunStart(s, k) ==
    CHOOSE i \in WsRunStarts(s) : Cardinality({j \in WsRunStarts(s) : j < i}) = k - 1

\* the whitespace-delimited tokens: the pieces between the runs of whitespace,
\* an empty one before a leading and after a trailing run
TokenCount(s) == 1 + Cardinality(WsRunStarts(s))

Token(s, k) ==
    SubSeq(s,
           IF k = 1 THEN 1 ELSE WsRunEnd(s, NthWsRunStart(s, k - 1)) + 1,
           IF k = TokenCount(s) THEN Len(s) ELSE NthWsRunStart(s, k) - 1)

FirstTokens(s, n) ==
    IF n = 0 THEN <<>> ELSE join([k \in 1..n |-> Token(s, k)], <<" ">>)

\* C9: trimToWordLimit returns its input unchanged when it has at most limit
\* whitespace-delimited tokens, and else the first limit tokens joined by single
\* spaces and followed by "..."; through execute, max_length = 0 trims nothing
\* and max_length = k > 0 leaves at most k whitespace-delimited tokens.
C9_TrimToLimit ==
    /\ pc \in {"trim.once", "trim.twice"} =>
          result.once = (IF TokenCount(args.text) <= args.limit THEN args.text
                         ELSE FirstTokens(args.text, args.limit) \o <<".",".",".">>)
    /\ (Done /\ result.success) =>
          /\ args.max_length = 0 =>
                ~HasStage("trim") /\ result.output = StageOf("format").out
          /\ args.max_length > 0 => TokenCount(result.output) <= args.max_length

\* the five-word text cut to its first three words
C9_Witness ==
    /\ pc = "trim.once"
    /\ args = [text |-> TrimScenario, limit |-> 3]
    /\ result.once = <<"o","n","e"," ","t","w","o"," ","t","h","r","e","e",".",".",".">>

\* the score the claim C10 gives the sentence at index i of analysis.sentences
ClaimedScore(an, i) ==
    (IF Len(an.sentences[i]) > 50 /\ Len(an.sentences[i]) < 200 THEN 2 ELSE 0)
    + (IF \E k \in 1..Len(an.sentences[i]) : an.sentences[i][k] \in Digit THEN 1 ELSE 0)
    + keywordScore(an.keywords, toLowerCase(an.sentences[i]))
    + (IF i - 1 < 5 THEN 2 ELSE 0)

ClaimedKeyPoints(an, count, focus) ==
    LET all == [i \in 1..Len(an.sentences) |->
                   [sentence |-> an.sentences[i], score |-> ClaimedScore(an, i)]]
        HasFocus(e) == ~Truthy(focus) \/ ContainsIgnoringCase(e.sentence, focus.v)
        top == slice(sortByScore(SelectSeq(all, HasFocus)), 0, count)
    IN  [i \in 1..Len(top) |-> trim(top[i].sentence)]

\* C10: extractKeyPoints returns at most count sentences of analysis.sentences
\* (those containing the focus, when one is given), by descending score and in
\* their original order among equals, the score being +2 for a length between
\* 50 and 200, +1 for a digit, +min(frequency, 3) for each keyword contained and
\* +2 when the sentence's own position is below 5, also when the same text
\* occurs more than once.
C10_KeyPointsByOwnPosition ==
    pc = "keypoints.returned" =>
        /\ Len(result) <= args.count
        /\ result = ClaimedKeyPoints(analysis, args.count, args.focus)

(***************************************************************************)
(* Direct calls of generateStats                                           *)
(***************************************************************************)
\* the longest of the short texts given to generateStats
MaxStatsLen == 3

StatsAlphabet == {"a", " ", ".", "?", LF}

\* texts of 200 and of 201 words, and one of 201 words in two sentences
StatsSamples ==
    {Rep(<<"a"," ">>, 199) \o <<"a">>, Rep(<<"a"," ">>, 200), <<"a","."," ">> \o Rep(<<"a"," ">>, 199) \o <<"a",".">>,
     <<"a","."," ","b"," ","c",".">>}

InitStats ==
    /\ pc = "stats.call"
    /\ args \in {[text |-> t] : t \in SeqsUpTo(StatsAlphabet, MaxStatsLen) \cup StatsSamples}
    /\ result = Idle
    /\ fsys = NoFile
    /\ content = <<>>
    /\ analysis = Idle
    /\ summary = <<>>
    /\ formatted = Idle
    /\ stages = <<>>

\* generateStats(text)
CallStats ==
    /\ pc = "stats.call"
    /\ result' = generateStats(args.text)
    /\ pc' = "stats.returned"
    /\ UNCHANGED <<args, fsys, content, analysis, summary, formatted, stages>>

NextStats == CallStats
SpecStats == InitStats /\ [][NextStats]_vars

\* C11: for every text, readingTime of generateStats is ceil(words / 200) with
\* words the number of whitespace-delimited tokens, avgWordsPerSentence is
\* round(words / sentences) when sentences > 0 and 0 when sentences = 0, and
\* every field of the statistics is a number.
C11_StatsAreNumbers ==
    pc = "stats.returned" =>
        LET words == TokenCount(args.text)
            sentences == result.sentences
            avg == result.avgWordsPerSentence
        IN  /\ \A f \in DOMAIN result : result[f] \in Nat
            /\ result.words = words
            /\ result.readingTime * 200 >= words
            /\ (result.readingTime - 1) * 200 < words
            /\ sentences = 0 => avg = 0
            /\ sentences > 0 =>
                  2 * avg * sentences <= 2 * words + sentences
                  /\ 2 * words + sentences < 2 * (avg + 1) * sentences

\* a text of 201 words in 2 sentences: 2 minutes, and 100.5 rounded to 101
C11_Witness ==
    /\ pc = "stats.returned"
    /\ TokenCount(args.text) = 201
    /\ result.sentences = 2
    /\ result.readingTime = 2
    /\ result.avgWordsPerSentence = 101

(***************************************************************************)
(* Direct calls of formatOutput                                            *)
(***************************************************************************)
\* the most lines of a content given to formatOutput
MaxOutlineLines == 2
\* the longest content of markdown punctuation given to formatOutput
MaxPlainLen == 3

OutlineLines ==
    {<<>>, <<"*","*","T","i","t","l","e","*","*">>, <<Bullet," ","p","o","i","n","t"," ","o","n","e">>, <<"1","."," ","s","t","e","p"," ","o","n","e">>, <<"p","l","a","i","n"," ","l","i","n","e">>, <<Bullet,"x">>, <<"1",".","5"," ","x">>,
     <<"1","2","."," ","b">>, <<"*","*","a">>, <<"*","*","*">>, <<"*","*",Bullet," ","a","*","*">>}

OutlineScenario == <<"*","*","T","i","t","l","e","*","*",LF,Bullet," ","p","o","i","n","t"," ","o","n","e",LF,"1","."," ","s","t","e","p"," ","o","n","e",LF,"p","l","a","i","n"," ","l","i","n","e">>

OutlineContents ==
    {join(ls, <<LF>>) : ls \in SeqsUpTo(OutlineLines, MaxOutlineLines) \ {<<>>}}
    \cup {OutlineScenario}

PlainAlphabet == {"*", "_", "#", Backtick, "a"}

PlainSamples ==
    {<<"[","a","]","(","b",")">>, <<"[","*","a","*","]","(","#","b",")">>, <<"x","[","a","_","b","]","(","c",")","*","*","y","*","*">>, <<"[","]","(",")">>, <<"#"," ","T"," ","[","l","]","(","u","_","v",")"," ",Backtick,"c",Backtick>>, <<"[","a","]","(","*",")","[","_","]","(","b",")">>}

PlainContents == SeqsUpTo(PlainAlphabet, MaxPlainLen) \cup PlainSamples

InitFormat ==
    /\ pc = "format.call"
    /\ args \in {[content |-> c, format |-> f, mode |-> m] :
                    c \in OutlineContents \cup PlainContents, f \in Formats,
                    m \in {ModeAuto, ModeUnknown}}
    /\ result = Idle
    /\ fsys = NoFile
    /\ content = <<>>
    /\ analysis = Idle
    /\ summary = <<>>
    /\ formatted = Idle
    /\ stages = <<>>

\* formatOutput(content, format, mode)
CallFormat ==
    /\ pc = "format.call"
    /\ \E now \in Clocks : result' = formatOutput(args.content, args.format, args.mode, now)
    /\ pc' = "format.returned"
    /\ UNCHANGED <<args, fsys, content, analysis, summary, formatted, stages>>

NextFormat == CallFormat
SpecFormat == InitFormat /\ [][NextFormat]_vars

\* a line that begins with digits, a period and a space
IsNumberedListLine(line) ==
    \E k \in 1..Len(line) :
        /\ \A i \in 1..k : line[i] \in Digit
        /\ Len(line) >= k + 2 /\ line[k + 1] = "." /\ line[k + 2] = " "

IsBulletLine(line) == Len(line) >= 2 /\ line[1] = Bullet /\ line[2] = " "

IsBoldLine(line) ==
    /\ Len(line) >= 2
    /\ line[1] = "*" /\ line[2] = "*"
    /\ line[Len(line) - 1] = "*" /\ line[Len(line)] = "*"

ClaimedOutlineLine(line) ==
    IF IsBoldLine(line) THEN stripBold(line)
    ELSE IF IsBulletLine(line) \/ IsNumberedListLine(line) THEN <<" "," ">> \o line
    ELSE <<" "," "," "," ">> \o line

\* C12: with format outline every line of the content is transformed on its
\* own, the count and the order of the lines being kept: a line that starts and
\* ends with the bold marker loses its bold markers and gets no indent, a line
\* that starts with a bullet marker or with a number and a period (each followed
\* by a space) is indented by two spaces, every other line by four.
C12_OutlinePerLine ==
    (pc = "format.returned" /\ args.format = FormatOutline) =>
        LET given == splitChar(args.content, LF)
            made == splitChar(result.content, LF)
        IN  /\ Len(made) = Len(given)
            /\ \A i \in 1..Len(given) : made[i] = ClaimedOutlineLine(given[i])

\* the four-line content with a bold, a bullet, a numbered and a plain line
C12_Witness ==
    /\ pc = "format.returned"
    /\ args.format = FormatOutline
    /\ args.content = OutlineScenario
    /\ result.content = <<"T","i","t","l","e",LF," "," ",Bullet," ","p","o","i","n","t"," ","o","n","e",LF," "," ","1","."," ","s","t","e","p"," ","o","n","e",LF," "," "," "," ","p","l","a","i","n"," ","l","i","n","e">>

NextExecuteFormat == Execute \/ CallFormat
SpecExecuteFormat == (InitExecute \/ InitFormat) /\ [][NextExecuteFormat]_vars

HasMarkdownPunctuation(s) == \E i \in 1..Len(s) : s[i] \in {"*", "_", "#", Backtick}

\* C13: for every content and mode, formatOutput with format plain returns a
\* content without asterisk, underscore, hash and backtick; so does execute in
\* its final output, also after quotes were appended and after the word-limit
\* trim.
C13_PlainHasNoMarkdown ==
    /\ (pc = "format.returned" /\ args.format = FormatPlain)
          => ~HasMarkdownPunctuation(result.content)
    /\ (Done /\ result.success /\ args.format = FormatPlain)
          => ~HasMarkdownPunctuation(result.output)

\* an invocation with format plain whose summary had markdown punctuation
\* before the format, with quotes appended and the word-limit trim applied
C13_Witness ==
    /\ Done /\ result.success
    /\ args.format = FormatPlain
    /\ HasStage("quotes") /\ StageOf("quotes").in # StageOf("quotes").out
    /\ HasMarkdownPunctuation(StageOf("format").in)
    /\ HasStage("trim") /\ StageOf("trim").in # StageOf("trim").out
    /\ ~HasMarkdownPunctuation(result.output)

(***************************************************************************)
(* Claims about the modes                                                  *)
(***************************************************************************)
ClauseMike == <<"M","i","k","e"," ","t","o"," ","c","o","m","p","l","e","t","e"," ","A","P","I"," ","b","y"," ","F","r","i","d","a","y">>
ClauseLisa == <<"L","i","s","a"," ","t","o"," ","f","i","n","a","l","i","z","e"," ","i","c","o","n","s"," ","b","y"," ","n","e","x","t"," ","w","e","e","k">>

\* the two clauses as list lines under a next-steps label
HasNextStepsList(text) ==
    /\ includes(text, <<"N","e","x","t"," ","S","t","e","p","s",":",LF,"-"," ">> \o ClauseMike)
    /\ includes(text, <<LF,"-"," ">> \o ClauseLisa)

\* C14: with mode action_items, a text with the clauses "Mike to complete API
\* by Friday" and "Lisa to finalize icons by next week" as list lines under a
\* next-steps label yields a numbered list whose entries 1 and 2 are exactly
\* those clauses in that order; in general the output lists at most 10
\* actionable items numbered from 1 in document order, and is the fixed
\* sentinel when there are none.
C14_ActionItemsListed ==
    (HasStage("generate") /\ args.mode = ModeActionItems) =>
        LET out == StageOf("generate").out
            lines == splitChar(out, LF)
            items == analysis.actionableItems
        IN  /\ HasNextStepsList(content) =>
                  /\ Len(lines) >= 2
                  /\ lines[1] = <<"1","."," ">> \o ClauseMike
                  /\ lines[2] = <<"2","."," ">> \o ClauseLisa
            /\ items = <<>> => out = <<"N","o"," ","e","x","p","l","i","c","i","t"," ","a","c","t","i","o","n"," ","i","t","e","m","s"," ","f","o","u","n","d",".">>
            /\ items # <<>> =>
                  out = join([i \in 1..Min(Len(items), 10) |-> numStr(i) \o <<"."," ">> \o items[i]],
                             <<LF>>)

MatchesPositive(s) == \E t \in PositiveTerms : ContainsIgnoringCase(s, t)
MatchesNegative(s) == \E t \in NegativeTerms : ContainsIgnoringCase(s, t)

\* the indices of the sentences the claim C15 puts in each list
ProsIndices(sentences) == {i \in 1..Len(sentences) : MatchesPositive(sentences[i])}
ConsIndices(sentences) ==
    {i \in 1..Len(sentences) : ~MatchesPositive(sentences[i]) /\ MatchesNegative(sentences[i])}

\* the k-th least element of a set of numbers
NthLeast(S, k) == CHOOSE x \in S : Cardinality({y \in S : y < x}) = k - 1

\* the bullets of the first five sentences with their index in S, in document order
FiveBullets(sentences, S) ==
    LET n == Min(Cardinality(S), 5)
    IN  IF n = 0 THEN <<>>
        ELSE join([k \in 1..n |-> <<Bullet, " ">> \o trim(sentences[NthLeast(S, k)])], <<LF>>)

\* C15: in mode pros_cons every sentence is in at most one list: one that
\* matches a positive indicator is under Pros, also when it matches a negative
\* indicator too, one that matches only a negative indicator is under Cons, one
\* that matches neither is left out; each list is in document order and shows
\* at most 5 entries.
C15_ProsConsExclusive ==
    (HasStage("generate") /\ args.mode = ModeProsCons) =>
        StageOf("generate").out =
            <<"*","*","P","r","o","s",":","*","*",LF>> \o FiveBullets(analysis.sentences, ProsIndices(analysis.sentences))
            \o <<LF,LF,"*","*","C","o","n","s",":","*","*",LF>>
            \o FiveBullets(analysis.sentences, ConsIndices(analysis.sentences))

\* a text with more than five sentences for each list, one of the first five
\* positive ones with a negative indicator too, and a sentence with neither
C15_Witness ==
    /\ HasStage("generate") /\ args.mode = ModeProsCons
    /\ Cardinality(ProsIndices(analysis.sentences)) > 5
    /\ Cardinality(ConsIndices(analysis.sentences)) > 5
    /\ MatchesNegative(analysis.sentences[NthLeast(ProsIndices(analysis.sentences), 2)])
    /\ \E i \in 1..Len(analysis.sentences) :
          ~MatchesPositive(analysis.sentences[i]) /\ ~MatchesNegative(analysis.sentences[i])
    /\ Len(splitChar(StageOf("generate").out, LF)) = 13

(***************************************************************************)
(* Every invocation returns                                                *)
(***************************************************************************)
\* a text without a sentence and one whose only date is outside any sentence
DegenerateArgs ==
    {[DefaultArgs EXCEPT !.text = Given(t), !.mode = m] :
        t \in {TextNoSentence, TextDateNoSentence}, m \in Modes}

\* every mode on a missing file, an unreadable one, an empty one and two
\* others, and on the degenerate texts
InitReturns ==
    /\ pc = "start"
    /\ \/ args \in FileArgs /\ fsys \in FileSystems
       \/ args \in DegenerateArgs /\ fsys = NoFile
    /\ content = <<>>
    /\ analysis = Idle
    /\ summary = <<>>
    /\ formatted = Idle
    /\ stages = <<>>
    /\ result = Idle

SpecReturns == InitReturns /\ [][Execute]_vars

\* the positions of execute, from the call to the return
ExecuteOrder == <<"start", "read">> \o StageOrder
\* how far a position is in execute; 0 for a position outside it
Position(p) ==
    IF \E i \in 1..Len(ExecuteOrder) : ExecuteOrder[i] = p
      THEN CHOOSE i \in 1..Len(ExecuteOrder) : ExecuteOrder[i] = p
    ELSE 0

\* the options pass the validation of execute
ValidatedOptions ==
    /\ Truthy(args.text) \/ Truthy(args.file)
    /\ ~(Truthy(args.text) /\ Truthy(args.file))
    /\ ~LevelOutOfRange

IsText(s) == DOMAIN s = 1..Len(s) /\ \A i \in 1..Len(s) : s[i] \in STRING

ReturnedFailure == ~result.success /\ IsText(result.error) /\ result.error # <<>>
ReturnedSuccess == result.success /\ IsText(result.output) /\ result.data.present

ReturnsAsClaimed ==
    /\ ReturnedFailure \/ ReturnedSuccess
    /\ ValidatedOptions =>
          IF Truthy(args.file) /\ ~fsys.exists
            THEN ReturnedFailure /\ startsWith(result.error, ErrNotFound)
          ELSE IF Truthy(args.file) /\ ~fsys.readable
            THEN ReturnedFailure /\ startsWith(result.error, ErrRead)
          ELSE ReturnedSuccess

\* C16: every invocation of execute with validated options ends by returning a
\* result object and never by throwing (no step leaves the statements of
\* execute, and each step is further on towards the return): success=false with an error for a missing file and for a
\* failing file read, success=true with an output string for every content,
\* the degenerate ones included (no sentences, no paragraphs, no dates, no
\* actionable items, fewer key points than a template needs).
C16_AlwaysReturns ==
    /\ [](Position(pc) > 0)
    /\ [][Position(pc') > Position(pc)]_vars
    /\ [](Done => ReturnsAsClaimed)

\* the conversational template filled from a text without a sentence, in which
\* there is no key point, no paragraph break, no date and no actionable item
C16_Witness ==
    /\ Done /\ ValidatedOptions /\ result.success
    /\ args.mode = ModeConversational
    /\ analysis.sentences = <<>> /\ analysis.dates = <<>> /\ analysis.actionableItems = <<>>
    /\ extractKeyPoints(analysis, 5, Absent) = <<>>
    /\ includes(result.output, <<"u","n","d","e","f","i","n","e","d"," ","A","l","s","o"," ","w","o","r","t","h"," ","n","o","t","i","n","g"," ","t","h","a","t"," ","u","n","d","e","f","i","n","e","d">>)

(***************************************************************************)
(* The clock                                                               *)
(***************************************************************************)
\* the output execute returns when formatOutput reads the clock value now
OutputAt(now) ==
    LET f == formatOutput(StageOf("format").in, args.format, args.mode, now).content
    IN  IF args.max_length > 0 THEN trimToWordLimit(f, args.max_length) ELSE f

\* the timestamp or date the format embeds
Stamp(now) ==
    IF args.format = FormatJson THEN now.iso
    ELSE IF args.format = FormatHtml THEN now.localeDate
    ELSE <<>>

\* the output without the last occurrence of the stamp
WithoutStamp(out, stamp) ==
    LET at == {p \in 1..(Len(out) - Len(stamp) + 1) : StartsAt(out, p, stamp)}
        last == CHOOSE p \in at : \A q \in at : q <= p
    IN  IF stamp = <<>> \/ at = {} THEN out
        ELSE SubSeq(out, 1, last - 1) \o SubSeq(out, last + Len(stamp), Len(out))

\* C17: two invocations with identical text and options differ in the embedded
\* timestamp or date only: whatever the clock value, data.summaryLength and
\* the rest of the output are the same, with and without a word-limit trim, and
\* for the formats markdown, plain and outline the whole output is the same.
C17_ClockOnlyInStamp ==
    (Done /\ result.success) =>
        \A now \in Clocks : \E used \in Clocks :
            /\ result.output = OutputAt(used)
            /\ Len(OutputAt(now)) = result.data.summaryLength
            /\ WithoutStamp(OutputAt(now), Stamp(now)) = WithoutStamp(result.output, Stamp(used))
            /\ args.format \in {FormatMarkdown, FormatPlain, FormatOutline}
                  => OutputAt(now) = result.output

(***************************************************************************)
(* Claims about the section scan                                           *)
(***************************************************************************)
IsTitleLine(line) == sectionMatch(line).matched
BodyIndices(lines) ==
    {i \in 1..Len(lines) : ~IsTitleLine(lines[i]) /\ trim(lines[i]) # <<>>}

\* the title of the nearest title line before line i, Introduction without one
NearestTitle(lines, i) ==
    LET before == {j \in 1..(i - 1) : IsTitleLine(lines[j])}
    IN  IF before = {} THEN Introduction
        ELSE sectionMatch(lines[CHOOSE j \in before : \A k \in before : k <= j]).title

\* the body lines under the title, in document order
ClaimedEntry(lines, title) ==
    LET mine == {i \in BodyIndices(lines) : NearestTitle(lines, i) = title}
    IN  [k \in 1..Cardinality(mine) |-> lines[NthLeast(mine, k)]]

\* C18: after the section scan every non-blank line that is not a title line
\* is held in the entry of the nearest title line before it (Introduction when
\* there is none), in document order, and no body line is lost, also when the
\* same title occurs more than once.
C18_SectionsKeepEveryLine ==
    HasStage("analyze") =>
        LET lines == splitChar(content, LF)
        IN  \A i \in BodyIndices(lines) :
               /\ mapHas(analysis.sections, NearestTitle(lines, i))
               /\ mapGet(analysis.sections, NearestTitle(lines, i))
                     = ClaimedEntry(lines, NearestTitle(lines, i))

(***************************************************************************)
(* Claims about the executive summary and the timeline                     *)
(***************************************************************************)
ClaimedOverview(paragraph) ==
    IF Len(paragraph) <= 200 THEN paragraph ELSE SubSeq(paragraph, 1, 200) \o <<".", ".", ".">>

ClaimedRecommendations(sentences) ==
    {i \in 1..Len(sentences) :
        \E t \in RecommendationTerms : ContainsIgnoringCase(sentences[i], t)}

ClaimedExecutiveParts(an) ==
    <<<<"*","*","O","v","e","r","v","i","e","w","*","*",":"," ">> \o ClaimedOverview(an.paragraphs[1])>>
    \o (IF an.numbers = <<>> THEN <<>>
        ELSE <<<<"*","*","K","e","y"," ","M","e","t","r","i","c","s","*","*",":"," ">>
               \o join(SubSeq(an.numbers, 1, Min(Len(an.numbers), 5)), <<",", " ">>)>>)
    \o (IF ClaimedRecommendations(an.sentences) = {} THEN <<>>
        ELSE <<<<"*","*","R","e","c","o","m","m","e","n","d","a","t","i","o","n","s","*","*",":",LF>>
               \o join([k \in 1..Min(Cardinality(ClaimedRecommendations(an.sentences)), 3) |->
                           <<Bullet, " ">>
                           \o trim(an.sentences[NthLeast(ClaimedRecommendations(an.sentences), k)])],
                       <<LF>>)>>)

\* C19: in mode executive on a text with a paragraph, the Overview is the first
\* paragraph itself when it has at most 200 characters and its first 200
\* characters followed by an ellipsis when it is longer; Key Metrics shows at
\* most 5 numeric tokens, Recommendations at most 3 sentences, and a part
\* without content is omitted.
C19_ExecutiveOverview ==
    (HasStage("generate") /\ args.mode = ModeExecutive /\ analysis.paragraphs # <<>>) =>
        StageOf("generate").out = join(ClaimedExecutiveParts(analysis), <<LF, LF>>)

\* the sentences that contain the date, by index
SentencesWith(an, date) == {i \in 1..Len(an.sentences) : includes(an.sentences[i], date)}

ClaimedTimelineLine(an, date) ==
    <<"*", "*">> \o date \o <<"*", "*", ":", " ">>
    \o trim(an.sentences[NthLeast(SentencesWith(an, date), 1)])

\* C20: in mode timeline the output is never empty: it is the sentinel when no
\* date is detected, and otherwise it has one bold-dated line per detected date,
\* in the order of the dates, each with the first sentence that contains the
\* date, also for a text whose dates are outside any detected sentence.
C20_TimelineNeverEmpty ==
    (HasStage("generate") /\ args.mode = ModeTimeline) =>
        LET out == StageOf("generate").out
            dates == analysis.dates
        IN  /\ out # <<>>
            /\ dates = <<>> => out = NoTimeline
            /\ dates # <<>> =>
                  /\ Len(splitChar(out, LF)) >= Len(dates)
                  /\ \A k \in 1..Len(dates) :
                        startsWith(splitChar(out, LF)[k], <<"*", "*">> \o dates[k] \o <<"*", "*", ":", " ">>)
                  /\ (\A k \in 1..Len(dates) : SentencesWith(analysis, dates[k]) # {}) =>
                        out = join([k \in 1..Len(dates) |-> ClaimedTimelineLine(analysis, dates[k])],
                                   <<LF>>)

====
